---- MODULE Spec2Model ----
(***************************************************************************)
(* Client-side inference orchestration of the crop disease diagnosis app:  *)
(*   - the model-worker channel (worker client: initWorker,                *)
(*     sendWorkerMessage, processImageInWorker, worker.onmessage,          *)
(*     worker.onerror, the request timers),                                *)
(*   - analyzePlantImage's tier chain, record assembly and persistence,    *)
(*   - the pages that start an analysis and show its result,               *)
(*   - the image-processing worker channel (getWorker, preprocessImage,    *)
(*     segmentImage and the image worker's listener),                      *)
(*   - the camera stream of ImageUploadSection,                            *)
(*   - the classifiers and the Diagnosis Assembler on their own,           *)
(*   - the Result Store Gateway over a store that may fail, with the       *)
(*     diagnosis_details table and the 'plant-images' bucket,              *)
(*   - the Image Validator on its own,                                     *)
(*   - the image worker's segmentImage on pixel buffers,                   *)
(*   - the object URLs and tensors of the functions a tier runs.           *)
(* Each part has its own specification over the shared variables.          *)
(*                                                                         *)
(* JavaScript scheduling: an event handler (a worker message, a worker     *)
(* error, a timer, an image load) runs to completion, and the promise      *)
(* continuations it made runnable run before the next event.  Event        *)
(* actions are therefore guarded by ~MicrotaskReady, continuations are     *)
(* steps of their own.  A promise settles once: later resolve/reject calls *)
(* on it have no effect (Settle).                                          *)
(***************************************************************************)
EXTENDS Naturals, Integers, Sequences, FiniteSets, TLC

\* src/src/lib/supabase.ts:50
MAX_INIT_ATTEMPTS == 3

\* Bound on messageId: no request is created once it is reached.
MaxMsgId == 3

\* Concurrent callers of processImageInWorker: the analysis pipeline "a1"
\* and two further overlapping callers.
Clients == {"c1", "c2"}
Callers == Clients \cup {"a1"}

VARIABLES
  \* ---- module state of the worker client
  worker,                 \* "null" or "w": the Worker object held
  isInitialized,
  messageId,
  pendingPromises,        \* id -> the request whose resolve/reject it holds
  fallbackToMainThread,
  initializationAttempts,
  \* ---- promises, timers, the worker's side
  reqs,                   \* the requests something still refers to
  inbox,                  \* messages posted to the worker, not yet answered
  workerSupported,        \* window.Worker is defined
  \* ---- callers of processImageInWorker
  callpc, callreq, callres,
  \* ---- observation
  workersConstructed,     \* number of Worker objects constructed
  erroredPending          \* requests that were pending at a worker error

chanVars == <<worker, isInitialized, messageId, pendingPromises,
              fallbackToMainThread, initializationAttempts, reqs, inbox,
              workerSupported, callpc, callreq, callres,
              workersConstructed, erroredPending>>

VARIABLES
  \* ---- one user-initiated analysis (analyzePlantImage) and its page
  apc,          \* where the analysis is
  page,         \* the page whose handleImageSubmit started it
  file,         \* the submitted image
  imageUrl,     \* what uploadImage returned: "blob" (object URL) or "public"
  tier,         \* per tier: "idle", "running", "failed", "ok"
  modelResult,  \* the classification and the approachUsed tag logged with it
  record,       \* the DiagnosisResult analyzePlantImage returns
  rows,         \* ids of table diagnoses that this analysis' id can match
  display       \* what the user is shown for this analysis

pipeVars == <<apc, page, file, imageUrl, tier, modelResult, record, rows, display>>

VARIABLES
  \* ---- the image-processing worker channel (image-processor, image-worker)
  iworker,      \* "null" or "w": image-processor's worker
  ilisteners,   \* the worker's "message" listeners on the main thread
  ireqs,        \* preprocessImage / segmentImage calls: their promises
  iinbox,       \* requests posted to the image worker, not yet answered
  ioutbox       \* messages the image worker has posted, in order

imgVars == <<iworker, ilisteners, ireqs, iinbox, ioutbox>>

\* ImageUploadSection (the capture / selection component)
VARIABLES
  mounted,         \* the component is mounted
  activeTab,       \* "upload", "camera" or "preview"
  previewUrl,      \* TRUE iff previewUrl is set
  isCameraActive,
  streamRef,       \* 0 for null, else the stream held by streamRef.current
  liveStreams,     \* streams that have a track not stopped
  gumCalls,        \* getUserMedia calls not yet settled
  started,         \* number of getUserMedia calls made
  restartTimers,   \* pending setTimeout(startCamera, 300) of toggleCameraFacing
  mediaDevices     \* navigator.mediaDevices.getUserMedia: "unprobed", "present", "absent"

camVars == <<mounted, activeTab, previewUrl, isCameraActive, streamRef,
             liveStreams, gumCalls, started, restartTimers, mediaDevices>>

\* the Diagnosis Assembler applied to one classification
VARIABLES
  dxInput,         \* the classification handed to the assembler (modelResult)
  dxRecord         \* the DiagnosisResult returned for it

dxVars == <<dxInput, dxRecord>>

\* the Result Store Gateway (api.ts) and the backing store
VARIABLES
  diagnoses,       \* rows of the diagnoses table
  feedback,        \* ids whose diagnosis_details row carries feedback
  lastOp,          \* the gateway call made last and what it did
  details,         \* diagnosis ids that have a row in diagnosis_details
  bucket           \* keys of the objects in storage bucket 'plant-images'

storeVars == <<diagnoses, feedback, lastOp, details, bucket>>

\* the Image Validator applied to one file
VARIABLES
  vfile,           \* the file handed to processImageForModel
  vreason          \* the message of the Error it threw, "" when it threw none

valVars == <<vfile, vreason>>

\* the image worker's segmentImage applied to one buffer
VARIABLES
  segInput,        \* the pixels of imageData and options.threshold (tenths)
  segResult,       \* the pixels of the ImageData returned
  segKept          \* per pixel: the pixel was kept (foreground)

segVars == <<segInput, segResult, segKept>>

\* Object URLs and tensors of the functions a tier runs
VARIABLES
  resFn,        \* the function running, "none" before the first
  resPc,        \* its position; "idle", "returned" or "threw" between calls
  resLive,      \* what is allocated and not released: [n |-> call, res |-> name]
  resAttempt    \* number of calls made

resVars == <<resFn, resPc, resLive, resAttempt>>

\* what the worker-client channel and the analysis leave alone
auxVars == <<imgVars, camVars, dxVars, storeVars, valVars, segVars, resVars>>

vars == <<chanVars, pipeVars, auxVars>>

----------------------------------------------------------------------------
\* Helpers

\* A request is its promise and its timer.  reqs holds a request for as
\* long as anything can still reach it: its promise is pending, its timer is
\* set, pendingPromises holds its closure, its message is with the worker, or
\* a caller has yet to read its outcome.  Requests nothing refers to are
\* dropped; request numbers are then reused, message ids come from messageId.
ReqIdx == DOMAIN reqs

Tokens == 1..MaxMsgId

\* Outcomes of a request's promise.  For a predict request "resolved" is
\* resolve(result) and the others are rejections with the named reason.  For
\* the init request the promise is workerInitPromise: "resolved" is
\* resolve(true), everything else settled is resolve(false).
Outcomes == {"pending", "resolved", "initFalse", "responseError", "timedOut",
             "workerError"}

Pending(k) == reqs[k].outcome = "pending"

\* A promise that could be settled again: the last settlement wins.  Used to
\* see that a property rests on promises settling once.
SettleLastWins(r, o, by) == [r EXCEPT !.outcome = o, !.timer = FALSE, !.by = by]

\* The entry's resolve/reject wrapper: clearTimeout, then settle the promise,
\* which only has an effect the first time.  by = request the settling worker
\* message answered (0: not a worker message).
Settle(r, o, by) ==
  IF r.outcome = "pending"
  THEN [r EXCEPT !.outcome = o, !.timer = FALSE, !.by = by]
  ELSE [r EXCEPT !.timer = FALSE]

\* delete pendingPromises[id]
Delete(map, id) == [i \in (DOMAIN map) \ {id} |-> map[i]]

\* pendingPromises[id] = closure k
Register(map, id, k) == [i \in (DOMAIN map) \cup {id} |-> IF i = id THEN k ELSE map[i]]

\* A caller whose awaited promise has settled: its continuation runs before
\* any further event.
Resumable(c) ==
  /\ callpc[c] \in {"awaitInit", "awaitPredict"}
  /\ ~Pending(callreq[c])

MicrotaskReady == \E c \in Callers : Resumable(c)

AwaitingInit == {c \in Callers : callpc[c] = "awaitInit"}

FreeTokens == Tokens \ DOMAIN reqs

NewToken == CHOOSE n \in FreeTokens : \A m \in FreeTokens : n <= m

\* Ids a call started now may still take (init only when no worker exists
\* yet, then predict), plus the predict of a caller awaiting init.
RoomFor(c) ==
  LET need == IF fallbackToMainThread
                 \/ (~isInitialized /\ initializationAttempts >= MAX_INIT_ATTEMPTS)
                 \/ (~isInitialized /\ ~workerSupported)
              THEN 0
              ELSE IF worker = "null" THEN 2 ELSE 1
  IN messageId + need + Cardinality(AwaitingInit) <= MaxMsgId

\* Request n of R is still referred to in the state being written, or this
\* step has changed it: a request is dropped by the first step that leaves it
\* as it was with nothing referring to it.
Referred(R, n) ==
  \/ R[n].outcome = "pending"
  \/ n \in DOMAIN reqs /\ R[n] # reqs[n]
  \/ R[n].timer
  \/ \E m \in inbox' : m.req = n
  \/ \E i \in DOMAIN pendingPromises' : pendingPromises'[i] = n
  \/ \E c \in Callers : callpc'[c] \in {"awaitInit", "awaitPredict"} /\ callreq'[c] = n

\* reqs and erroredPending of the state being written, from the requests R
\* and the set E, without the requests nothing refers to any more
Commit(R, E) ==
  /\ reqs' = [n \in {m \in DOMAIN R : Referred(R, m)} |-> R[n]]
  /\ erroredPending' = {n \in E \cap DOMAIN R : Referred(R, n)}

----------------------------------------------------------------------------
\* Image validation (image-processor): validateImage, checkImageContent,
\* processImageForModel

\* 25 * 1024 * 1024
MaxFileBytes == 26214400
MinDimension == 50
DarkThreshold == 20
BrightThreshold == 235

\* Math.random() is k / RandDen for k in 0..RandDen-1
RandDen == 2
Rand == 0..(RandDen - 1)

AcceptedTypes == {"image/jpeg", "image/png", "image/webp", "image/bmp"}

\* a well-formed image, and images that differ from it in one attribute or two
GoodFile ==
  [type |-> "image/jpeg", size |-> 204800, minDim |-> MinDimension,
   brightness |-> 128, loads |-> TRUE, readable |-> TRUE]

Files ==
  {GoodFile,
   [GoodFile EXCEPT !.type = "text/plain"],
   [GoodFile EXCEPT !.size = MaxFileBytes + 1],
   [GoodFile EXCEPT !.loads = FALSE],
   [GoodFile EXCEPT !.minDim = 10],
   [GoodFile EXCEPT !.brightness = 10],
   [GoodFile EXCEPT !.brightness = 240],
   [GoodFile EXCEPT !.minDim = 10, !.brightness = 10]}

\* validateImage(file).error, "" when valid
validateImage(f) ==
  IF f.type \notin AcceptedTypes
  THEN "Invalid file type. Please upload a JPEG, PNG, WEBP, or BMP image."
  ELSE IF f.size > MaxFileBytes
  THEN "Image is too large. Maximum size is 25MB."
  ELSE ""

\* checkImageContent(file).error, "" when valid; readable: getContext('2d')
\* gives a context and reading the pixels does not throw
checkImageContent(f) ==
  IF ~f.loads THEN "Failed to load image for content analysis."
  ELSE IF f.minDim < MinDimension
  THEN "Image is too small. Please provide a larger image."
  ELSE IF ~f.readable THEN ""
  ELSE IF f.brightness < DarkThreshold
  THEN "Image is too dark. Please provide a better lit image."
  ELSE IF f.brightness > BrightThreshold
  THEN "Image is too bright or mostly blank. Please provide an image with clearer plant content."
  ELSE ""

\* the message of the Error processImageForModel throws before compressing,
\* "" when it throws none
processImageForModel(f) ==
  IF validateImage(f) # "" THEN validateImage(f) ELSE checkImageContent(f)

----------------------------------------------------------------------------
\* Classifications

\* ml-model DISEASE_CLASSES (ids); the worker and tensorflow-model hold the
\* same ten ids
DISEASE_CLASSES ==
  <<"healthy", "late_blight", "early_blight", "bacterial_spot", "black_rot",
    "powdery_mildew", "downy_mildew", "cercospora_leaf_spot", "common_rust",
    "northern_leaf_blight">>

\* keys of DISEASE_INFO
DISEASE_INFO ==
  {"late_blight", "early_blight", "bacterial_spot", "black_rot",
   "powdery_mildew", "healthy"}

KnownDisease(d) == \E i \in DOMAIN DISEASE_CLASSES : DISEASE_CLASSES[i] = d

\* Math.floor(Math.random() * n) for Math.random() = k / RandDen
RandomIndex(k, n) == (k * n) \div RandDen

\* Math.round(lo + Math.random() * span)
RoundRandom(lo, span, k) == (2 * (lo * RandDen + span * k) + RandDen) \div (2 * RandDen)

\* Math.round(probability * 100) for probability = k / RandDen, k in 0..RandDen
Percent(k) == (2 * 100 * k + RandDen) \div (2 * RandDen)

NoResult == [diseaseId |-> "", confidence |-> 0, producer |-> "none", tag |-> ""]

\* the worker's processImageData / predictDisease on the main thread: a class
\* by index, confidence Math.round(probability * 100)
ModelPrediction(producer, k, p) ==
  [diseaseId |-> DISEASE_CLASSES[RandomIndex(k, Len(DISEASE_CLASSES)) + 1],
   confidence |-> Percent(p), producer |-> producer, tag |-> ""]

\* worker client processFallback(imageData): one of six classes, confidence
\* 70 + Math.floor(Math.random() * 20)
processFallback(k, j) ==
  [diseaseId |-> DISEASE_CLASSES[RandomIndex(k, 6) + 1],
   confidence |-> 70 + RandomIndex(j, 20),
   producer |-> "processFallback", tag |-> ""]

\* ml-model CNNClassifier.classify: random class, base 85 (healthy) or 75,
\* plus Math.floor(Math.random() * 15)
classify(k, j) ==
  LET d == DISEASE_CLASSES[RandomIndex(k, Len(DISEASE_CLASSES)) + 1] IN
  [diseaseId |-> d,
   confidence |-> (IF d = "healthy" THEN 85 ELSE 75) + RandomIndex(j, 15),
   producer |-> "classical", tag |-> ""]

\* api getLocalDiseaseData(one of three ids): confidence
\* Math.round(70 + Math.random() * 20)
getLocalDiseaseData(k, j) ==
  [diseaseId |-> <<"healthy", "late_blight", "early_blight">>[RandomIndex(k, 3) + 1],
   confidence |-> RoundRandom(70, 20, j),
   producer |-> "getLocalDiseaseData", tag |-> ""]

\* approachUsed = t, next to modelResult
Tagged(r, t) == [r EXCEPT !.tag = t]

NoRecord ==
  [id |-> "", isHealthy |-> FALSE, diseaseName |-> "", confidenceScore |-> 0,
   description |-> "", symptoms |-> << >>, imageUrl |-> "", diseaseId |-> "",
   producer |-> "none", tag |-> ""]

\* getDiseaseInfo(d).description: the DISEASE_INFO text, or the generic
\* sentence for a class without detailed info
Description(d) == IF d \in DISEASE_INFO THEN "info:" \o d ELSE "generic:" \o d

\* getDiseaseInfo(d).symptoms: the list of the DISEASE_INFO entry (empty for
\* "healthy"), or the two generic symptoms
SymptomsGenericForHealthy(d) ==
  IF d \in DISEASE_INFO \ {"healthy"} THEN <<"symptoms:" \o d>>
  ELSE <<"Leaf discoloration", "Stunted growth">>

Symptoms(d) ==
  IF d = "healthy" THEN << >>
  ELSE IF d \in DISEASE_INFO THEN <<"symptoms:" \o d>>
  ELSE <<"Leaf discoloration", "Stunted growth">>

\* the DiagnosisResult object literal of analyzePlantImage (both branches)
Assemble(r, url) ==
  [id |-> "cur",
   isHealthy |-> (r.diseaseId = "healthy"),
   diseaseName |-> IF r.diseaseId = "healthy" THEN "undefined" ELSE "name:" \o r.diseaseId,
   confidenceScore |-> r.confidence,
   description |-> Description(r.diseaseId),
   symptoms |-> Symptoms(r.diseaseId),
   imageUrl |-> url,
   diseaseId |-> r.diseaseId, producer |-> r.producer, tag |-> r.tag]

\* the catch (modelError) branch: one of three ids, confidence
\* 60 + Math.floor(Math.random() * 20); no approachUsed is in scope
FallbackDiagnosis(k, j) ==
  [diseaseId |-> <<"healthy", "late_blight", "early_blight">>[RandomIndex(k, 3) + 1],
   confidence |-> 60 + RandomIndex(j, 20),
   producer |-> "catchFallback", tag |-> ""]

\* Math.random() is k / FineDen for k in 0..FineDen-1 where a classifier is
\* applied on its own
FineDen == 16
FineRand == 0..(FineDen - 1)

\* Math.floor(Math.random() * n) for Math.random() = k / FineDen
FloorRandom(k, n) == (k * n) \div FineDen

\* RandomForestClassifier.classify: random class, base 88 (healthy) or 80,
\* plus Math.floor(Math.random() * 12)
RandomForestClassify(k, j) ==
  LET d == DISEASE_CLASSES[FloorRandom(k, Len(DISEASE_CLASSES)) + 1] IN
  [diseaseId |-> d,
   confidence |-> (IF d = "healthy" THEN 88 ELSE 80) + FloorRandom(j, 12),
   producer |-> "RandomForestClassifier", tag |-> ""]

\* SVMClassifier.classify: random class, base 92 (healthy) or 85, plus
\* Math.floor(Math.random() * 14)
SVMClassify(k, j) ==
  LET d == DISEASE_CLASSES[FloorRandom(k, Len(DISEASE_CLASSES)) + 1] IN
  [diseaseId |-> d,
   confidence |-> (IF d = "healthy" THEN 92 ELSE 85) + FloorRandom(j, 14),
   producer |-> "SVMClassifier", tag |-> ""]

\* CNNClassifier.classify at the same resolution
CNNClassify(k, j) ==
  LET d == DISEASE_CLASSES[FloorRandom(k, Len(DISEASE_CLASSES)) + 1] IN
  [diseaseId |-> d,
   confidence |-> (IF d = "healthy" THEN 85 ELSE 75) + FloorRandom(j, 15),
   producer |-> "classical", tag |-> ""]

\* saveDiagnosisToDatabase: only diagnoses with confidence of 75 or more
MinSaveConfidence == 75

----------------------------------------------------------------------------
ChanInit ==
  /\ worker = "null"
  /\ isInitialized = FALSE
  /\ messageId = 0
  /\ pendingPromises = [i \in {} |-> 0]
  /\ fallbackToMainThread = FALSE
  /\ initializationAttempts = 0
  /\ reqs = [n \in {} |-> 0]
  /\ inbox = {}
  /\ workerSupported \in BOOLEAN
  /\ callpc = [c \in Callers |-> "idle"]
  /\ callreq = [c \in Callers |-> 0]
  /\ callres = [c \in Callers |-> "none"]
  /\ workersConstructed = 0
  /\ erroredPending = {}

----------------------------------------------------------------------------
\* sendWorkerMessage(type) made by caller c, and what the awaiting
\* processImageInWorker does with an immediate rejection.

NewReq(type) ==
  [id |-> messageId, type |-> type, outcome |-> "pending", timer |-> TRUE, by |-> 0]

\* sendWorkerMessage taking its id without incrementing messageId: ids repeat
SendPostedSameId(c) ==
  /\ FreeTokens # {}
  /\ messageId' = messageId
  /\ pendingPromises' = Register(pendingPromises, messageId, NewToken)
  /\ inbox' = inbox \cup {[id |-> messageId, req |-> NewToken]}
  /\ callpc' = [callpc EXCEPT ![c] = "awaitPredict"]
  /\ callreq' = [callreq EXCEPT ![c] = NewToken]
  /\ callres' = [callres EXCEPT ![c] = "none"]
  /\ Commit([n \in DOMAIN reqs \cup {NewToken} |->
               IF n = NewToken THEN NewReq("predict") ELSE reqs[n]],
            erroredPending)

\* id = messageId++ ; timer set ; pendingPromises[id] = {resolve, reject} ;
\* worker.postMessage({type, data, id})
SendPosted(c) ==
  /\ FreeTokens # {}
  /\ messageId' = messageId + 1
  /\ pendingPromises' = Register(pendingPromises, messageId, NewToken)
  /\ inbox' = inbox \cup {[id |-> messageId, req |-> NewToken]}
  /\ callpc' = [callpc EXCEPT ![c] = "awaitPredict"]
  /\ callreq' = [callreq EXCEPT ![c] = NewToken]
  /\ callres' = [callres EXCEPT ![c] = "none"]
  /\ Commit([n \in DOMAIN reqs \cup {NewToken} |->
               IF n = NewToken THEN NewReq("predict") ELSE reqs[n]],
            erroredPending)

\* postMessage throws: clearTimeout, delete pendingPromises[id], reject; the
\* catch of processImageInWorker returns processFallback(imageData).
SendThrows(c) ==
  /\ messageId' = messageId + 1
  /\ pendingPromises' = Delete(pendingPromises, messageId)
  /\ callpc' = [callpc EXCEPT ![c] = "done"]
  /\ callreq' = [callreq EXCEPT ![c] = 0]
  /\ callres' = [callres EXCEPT ![c] = "fallback"]
  /\ UNCHANGED inbox
  /\ Commit(reqs, erroredPending)

\* return processFallback(imageData)
ReturnFallback(c) ==
  /\ callpc' = [callpc EXCEPT ![c] = "done"]
  /\ callreq' = [callreq EXCEPT ![c] = 0]
  /\ callres' = [callres EXCEPT ![c] = "fallback"]
  /\ UNCHANGED <<messageId, pendingPromises, inbox>>
  /\ Commit(reqs, erroredPending)

\* processImageInWorker after the initialization step: the fallback test,
\* then sendWorkerMessage('predict', imageData), which rejects at once when no
\* worker exists.  Reads the values the initialization step has just written.
SendStage(c) ==
  IF fallbackToMainThread' \/ worker' = "null"
  THEN ReturnFallback(c)
  ELSE SendPosted(c) \/ SendThrows(c)

----------------------------------------------------------------------------
\* initWorker(), the part that runs before its first await.

\* attempts exhausted: fallbackToMainThread = true; return false
InitExhausted ==
  /\ initializationAttempts >= MAX_INIT_ATTEMPTS
  /\ fallbackToMainThread' = TRUE
  /\ UNCHANGED <<initializationAttempts, worker, workersConstructed, isInitialized>>

\* window.Worker undefined: fallbackToMainThread = true; return false
InitUnsupported ==
  /\ initializationAttempts < MAX_INIT_ATTEMPTS
  /\ ~workerSupported
  /\ initializationAttempts' = initializationAttempts + 1
  /\ fallbackToMainThread' = TRUE
  /\ UNCHANGED <<worker, workersConstructed, isInitialized>>

\* a worker object exists already: return isInitialized
InitHasWorker ==
  /\ initializationAttempts < MAX_INIT_ATTEMPTS
  /\ workerSupported
  /\ worker # "null"
  /\ initializationAttempts' = initializationAttempts + 1
  /\ UNCHANGED <<fallbackToMainThread, worker, workersConstructed, isInitialized>>

\* new Worker(...) throws: the catch resolves workerInitPromise(false), and
\* isInitialized = false is assigned
InitConstructThrows ==
  /\ initializationAttempts < MAX_INIT_ATTEMPTS
  /\ workerSupported
  /\ worker = "null"
  /\ initializationAttempts' = initializationAttempts + 1
  /\ fallbackToMainThread' =
       (fallbackToMainThread \/ initializationAttempts' >= MAX_INIT_ATTEMPTS)
  /\ isInitialized' = FALSE
  /\ UNCHANGED <<worker, workersConstructed>>

\* new Worker(...) succeeds: handlers installed, init timer set, the init
\* request registered and posted; the caller awaits workerInitPromise
InitCreateWorker(c) ==
  /\ initializationAttempts < MAX_INIT_ATTEMPTS
  /\ workerSupported
  /\ worker = "null"
  /\ FreeTokens # {}
  /\ initializationAttempts' = initializationAttempts + 1
  /\ worker' = "w"
  /\ workersConstructed' = workersConstructed + 1
  /\ messageId' = messageId + 1
  /\ pendingPromises' = Register(pendingPromises, messageId, NewToken)
  /\ inbox' = inbox \cup {[id |-> messageId, req |-> NewToken]}
  /\ callpc' = [callpc EXCEPT ![c] = "awaitInit"]
  /\ callreq' = [callreq EXCEPT ![c] = NewToken]
  /\ callres' = [callres EXCEPT ![c] = "none"]
  /\ UNCHANGED <<fallbackToMainThread, isInitialized>>
  /\ Commit([n \in DOMAIN reqs \cup {NewToken} |->
               IF n = NewToken THEN NewReq("init") ELSE reqs[n]],
            erroredPending)

\* initWorker() up to its return or its await, called with isInitialized
\* false (processImageInWorker calls it in no other case), and then the rest
\* of processImageInWorker up to its await
InitWorkerSync(c) ==
  \/ InitExhausted /\ SendStage(c)
  \/ InitUnsupported /\ SendStage(c)
  \/ InitHasWorker /\ SendStage(c)
  \/ InitConstructThrows /\ SendStage(c)
  \/ InitCreateWorker(c)

\* if (!isInitialized && !fallbackToMainThread) is false: no initWorker()
SkipInit(c) ==
  /\ UNCHANGED <<initializationAttempts, fallbackToMainThread, worker,
                 workersConstructed, isInitialized>>
  /\ SendStage(c)

----------------------------------------------------------------------------
\* processImageInWorker(imageData), called by c

\* from the call to the first await that suspends it
ProcessImageInWorker(c) ==
  /\ callpc[c] = "start"
  /\ ~MicrotaskReady
  /\ RoomFor(c)
  /\ UNCHANGED workerSupported
  /\ IF ~isInitialized /\ ~fallbackToMainThread
     THEN InitWorkerSync(c)
     ELSE SkipInit(c)

\* workerInitPromise has settled: isInitialized = success; initWorker returns
\* success; processImageInWorker goes on to the fallback test and the send
InitContinue(c) ==
  /\ callpc[c] = "awaitInit"
  /\ ~Pending(callreq[c])
  /\ isInitialized' = (reqs[callreq[c]].outcome = "resolved")
  /\ UNCHANGED <<initializationAttempts, fallbackToMainThread, worker,
                 workersConstructed, workerSupported>>
  /\ SendStage(c)

\* the predict promise has settled: return the result, or on rejection the
\* catch returns processFallback(imageData)
PredictContinue(c) ==
  /\ callpc[c] = "awaitPredict"
  /\ ~Pending(callreq[c])
  /\ callpc' = [callpc EXCEPT ![c] = "done"]
  /\ callreq' = [callreq EXCEPT ![c] = 0]
  /\ callres' = [callres EXCEPT ![c] =
                   IF reqs[callreq[c]].outcome = "resolved" THEN "worker" ELSE "fallback"]
  /\ UNCHANGED <<worker, isInitialized, messageId, pendingPromises,
                 fallbackToMainThread, initializationAttempts, inbox,
                 workerSupported, workersConstructed>>
  /\ Commit(reqs, erroredPending)

----------------------------------------------------------------------------
\* Events: the worker's messages and errors, the timers.

\* initWorker's reject wrapper and onerror: fallback once attempts are used up
FallbackIfExhausted ==
  fallbackToMainThread \/ initializationAttempts >= MAX_INIT_ATTEMPTS

\* The promise outcome a worker message produces: event.data.error rejects,
\* type 'init' resolves with success, anything else resolves with result.
MessageOutcome(type, kind) ==
  IF kind = "error" THEN "responseError"
  ELSE IF type = "init" /\ kind = "fail" THEN "initFalse"
  ELSE "resolved"

\* worker.onmessage for the worker's answer to message m.  kind: "ok" (a
\* result or success: true), "fail" (init with success: false), "error" (an
\* error field).
WorkerOnMessage(m, kind) ==
  /\ m \in inbox
  /\ ~MicrotaskReady
  /\ kind = "fail" => reqs[m.req].type = "init"
  /\ inbox' = inbox \ {m}
  /\ UNCHANGED <<worker, isInitialized, messageId, initializationAttempts,
                 workerSupported, callpc, callreq, callres, workersConstructed>>
  /\ IF m.id \in DOMAIN pendingPromises
     THEN LET k == pendingPromises[m.id] IN
          /\ pendingPromises' = Delete(pendingPromises, m.id)
          /\ fallbackToMainThread' =
               IF kind = "error" /\ reqs[k].type = "init"
               THEN FallbackIfExhausted ELSE fallbackToMainThread
          /\ Commit([reqs EXCEPT ![k] =
                       Settle(reqs[k], MessageOutcome(reqs[k].type, kind), m.req)],
                    erroredPending)
     ELSE /\ UNCHANGED <<pendingPromises, fallbackToMainThread>>
          /\ Commit(reqs, erroredPending)

\* worker.onerror: every entry of pendingPromises is rejected (none is
\* deleted), fallback once attempts are used up, workerInitPromise resolved
\* with false
WorkerOnError ==
  /\ worker # "null"
  /\ ~MicrotaskReady
  /\ fallbackToMainThread' = FallbackIfExhausted
  /\ UNCHANGED <<worker, isInitialized, messageId, pendingPromises,
                 initializationAttempts, inbox, workerSupported, callpc, callreq,
                 callres, workersConstructed>>
  /\ LET hit == {pendingPromises[i] : i \in DOMAIN pendingPromises} IN
     Commit([k \in ReqIdx |->
               IF k \in hit \/ reqs[k].type = "init"
               THEN Settle(reqs[k], "workerError", 0)
               ELSE reqs[k]],
            erroredPending \cup {k \in ReqIdx : Pending(k)})

\* a timeout that empties pendingPromises instead of deleting its own entry
TimeoutClearsAll(k) ==
  /\ k \in ReqIdx
  /\ reqs[k].timer
  /\ ~MicrotaskReady
  /\ IF reqs[k].type = "init"
     THEN /\ fallbackToMainThread' = FallbackIfExhausted
          /\ UNCHANGED pendingPromises
     ELSE /\ pendingPromises' = [i \in {} |-> 0]
          /\ UNCHANGED fallbackToMainThread
  /\ UNCHANGED <<worker, isInitialized, messageId, initializationAttempts,
                 inbox, workerSupported, callpc, callreq, callres,
                 workersConstructed>>
  /\ Commit([reqs EXCEPT ![k] = Settle(reqs[k], "timedOut", 0)], erroredPending)

\* the timer of request k fires.  sendWorkerMessage: delete
\* pendingPromises[id], reject 'Worker response timed out'.  initWorker:
\* fallback once attempts are used up, resolve(false); the entry stays.
Timeout(k) ==
  /\ k \in ReqIdx
  /\ reqs[k].timer
  /\ ~MicrotaskReady
  /\ IF reqs[k].type = "init"
     THEN /\ fallbackToMainThread' = FallbackIfExhausted
          /\ UNCHANGED pendingPromises
     ELSE /\ pendingPromises' = Delete(pendingPromises, reqs[k].id)
          /\ UNCHANGED fallbackToMainThread
  /\ UNCHANGED <<worker, isInitialized, messageId, initializationAttempts,
                 inbox, workerSupported, callpc, callreq, callres,
                 workersConstructed>>
  /\ Commit([reqs EXCEPT ![k] = Settle(reqs[k], "timedOut", 0)], erroredPending)

\* a caller (re)enters processImageInWorker
CallStart(c) ==
  /\ callpc[c] \in {"idle", "done"}
  /\ ~MicrotaskReady
  /\ callpc' = [callpc EXCEPT ![c] = "start"]
  /\ callres' = [callres EXCEPT ![c] = "none"]
  /\ UNCHANGED <<worker, isInitialized, messageId, pendingPromises,
                 fallbackToMainThread, initializationAttempts, reqs, inbox,
                 workerSupported, callreq, workersConstructed, erroredPending>>

----------------------------------------------------------------------------
\* analyzePlantImage(image) and the pages that call it.  The analysis is the
\* caller "a1" of processImageInWorker.

PipeInit ==
  /\ apc = "idle"
  /\ page = "none"
  /\ file = GoodFile
  /\ imageUrl = ""
  /\ tier = [t \in 1..4 |-> "idle"]
  /\ modelResult = NoResult
  /\ record = NoRecord
  /\ rows = {}
  /\ display = "none"

\* handleImageSubmit(image) of the home page or of the diagnosis page calls
\* analyzePlantImage.  rows is the part of the diagnoses table that can hold
\* the id of this analysis: empty, since uuidv4() is new.
Submit(pg, f) ==
  /\ apc \in {"idle", "shown"}
  /\ ~MicrotaskReady
  /\ apc' = "upload"
  /\ page' = pg
  /\ file' = f
  /\ imageUrl' = ""
  /\ tier' = [t \in 1..4 |-> "idle"]
  /\ modelResult' = NoResult
  /\ record' = NoRecord
  /\ rows' = {}
  /\ display' = "processing"
  /\ UNCHANGED <<chanVars, auxVars>>

\* uploadImage(image): the public URL, or an object URL when the store is not
\* reachable or the upload fails; it never throws
UploadImage(connected, uploaded) ==
  /\ apc = "upload"
  /\ ~MicrotaskReady
  /\ imageUrl' = IF connected /\ uploaded THEN "public" ELSE "blob"
  /\ apc' = "preprocess"
  /\ UNCHANGED <<page, file, tier, modelResult, record, rows, display>>
  /\ UNCHANGED <<chanVars, auxVars>>

\* const processedImage = await processImageForModel(image), inside the inner
\* try: a throw (validation, content check, compression) lands in
\* catch (modelError)
Preprocess(compressed) ==
  /\ apc = "preprocess"
  /\ ~MicrotaskReady
  /\ apc' = IF processImageForModel(file) # "" \/ ~compressed
            THEN "catchModel" ELSE "tier1"
  /\ UNCHANGED <<page, file, imageUrl, tier, modelResult, record, rows, display>>
  /\ UNCHANGED <<chanVars, auxVars>>

\* Approach 1 starts: processImageFileInWorker(processedImage)
Tier1Begin ==
  /\ apc = "tier1"
  /\ ~MicrotaskReady
  /\ tier' = [tier EXCEPT ![1] = "running"]
  /\ apc' = "t1pre"
  /\ UNCHANGED <<page, file, imageUrl, modelResult, record, rows, display>>
  /\ UNCHANGED <<chanVars, auxVars>>

\* processImageFileInWorker: processImageForModel and extractImageData went
\* through; processImageInWorker(imageData) is called
Tier1Call ==
  /\ apc = "t1pre"
  /\ ~MicrotaskReady
  /\ apc' = "t1wait"
  /\ callpc' = [callpc EXCEPT !["a1"] = "start"]
  /\ callres' = [callres EXCEPT !["a1"] = "none"]
  /\ UNCHANGED <<page, file, imageUrl, tier, modelResult, record, rows, display>>
  /\ UNCHANGED <<worker, isInitialized, messageId, pendingPromises,
                 fallbackToMainThread, initializationAttempts, reqs, inbox,
                 workerSupported, callreq, workersConstructed, erroredPending>>
  /\ UNCHANGED auxVars

\* Tier1Throws with catch (workerError) going straight to the classical
\* model: the tier order does not hold of this variant
Tier1ThrowsSkipsTier2 ==
  /\ apc = "t1pre"
  /\ ~MicrotaskReady
  /\ tier' = [tier EXCEPT ![1] = "failed"]
  /\ apc' = "tier3"
  /\ UNCHANGED <<page, file, imageUrl, modelResult, record, rows, display>>
  /\ UNCHANGED <<chanVars, auxVars>>

\* processImageFileInWorker: processImageForModel or extractImageData throws;
\* 'Failed to process image file: ...' reaches catch (workerError)
Tier1Throws ==
  /\ apc = "t1pre"
  /\ ~MicrotaskReady
  /\ tier' = [tier EXCEPT ![1] = "failed"]
  /\ apc' = "tier2"
  /\ UNCHANGED <<page, file, imageUrl, modelResult, record, rows, display>>
  /\ UNCHANGED <<chanVars, auxVars>>

\* processImageInWorker has returned (the worker's result or
\* processFallback's); approachUsed = "tensorflow-worker"
Tier1End(k, j) ==
  /\ apc = "t1wait"
  /\ callpc["a1"] = "done"
  /\ ~MicrotaskReady
  /\ modelResult' =
       Tagged(IF callres["a1"] = "worker"
              THEN ModelPrediction("worker", k, j)
              ELSE processFallback(k, j),
              "tensorflow-worker")
  /\ tier' = [tier EXCEPT ![1] = "ok"]
  /\ apc' = "assemble"
  /\ callpc' = [callpc EXCEPT !["a1"] = "idle"]
  /\ callres' = [callres EXCEPT !["a1"] = "none"]
  /\ UNCHANGED <<page, file, imageUrl, record, rows, display>>
  /\ UNCHANGED <<worker, isInitialized, messageId, pendingPromises,
                 fallbackToMainThread, initializationAttempts, reqs, inbox,
                 workerSupported, callreq, workersConstructed, erroredPending>>
  /\ UNCHANGED auxVars

\* Approach 2 starts in catch (workerError): import('./tensorflow-model'),
\* processImageForPrediction(processedImage)
Tier2Begin ==
  /\ apc = "tier2"
  /\ ~MicrotaskReady
  /\ tier' = [tier EXCEPT ![2] = "running"]
  /\ apc' = "t2run"
  /\ UNCHANGED <<page, file, imageUrl, modelResult, record, rows, display>>
  /\ UNCHANGED <<chanVars, auxVars>>

\* Tier2End without the catch (tensorflowError): the exception leaves
\* analyzePlantImage.  Fallthrough does not hold of this variant.
Tier2EndEscapes(ok, k, j) ==
  /\ apc = "t2run"
  /\ ~MicrotaskReady
  /\ IF ok
     THEN /\ modelResult' = Tagged(ModelPrediction("main", k, j), "tensorflow-main")
          /\ tier' = [tier EXCEPT ![2] = "ok"]
          /\ apc' = "assemble"
     ELSE /\ tier' = [tier EXCEPT ![2] = "failed"]
          /\ apc' = "thrown"
          /\ UNCHANGED modelResult
  /\ UNCHANGED <<page, file, imageUrl, record, rows, display>>
  /\ UNCHANGED <<chanVars, auxVars>>

\* processImageForPrediction returns (approachUsed = "tensorflow-main") or
\* throws into catch (tensorflowError)
Tier2End(ok, k, j) ==
  /\ apc = "t2run"
  /\ ~MicrotaskReady
  /\ IF ok
     THEN /\ modelResult' = Tagged(ModelPrediction("main", k, j), "tensorflow-main")
          /\ tier' = [tier EXCEPT ![2] = "ok"]
          /\ apc' = "assemble"
     ELSE /\ tier' = [tier EXCEPT ![2] = "failed"]
          /\ apc' = "tier3"
          /\ UNCHANGED modelResult
  /\ UNCHANGED <<page, file, imageUrl, record, rows, display>>
  /\ UNCHANGED <<chanVars, auxVars>>

\* Approach 3 starts in catch (tensorflowError): import('./ml-model'),
\* processImageWithModel(processedImage)
Tier3Begin ==
  /\ apc = "tier3"
  /\ ~MicrotaskReady
  /\ tier' = [tier EXCEPT ![3] = "running"]
  /\ apc' = "t3run"
  /\ UNCHANGED <<page, file, imageUrl, modelResult, record, rows, display>>
  /\ UNCHANGED <<chanVars, auxVars>>

\* processImageWithModel returns (approachUsed = "classical-ml") or throws
\* into catch (classicalError)
Tier3End(ok, k, j) ==
  /\ apc = "t3run"
  /\ ~MicrotaskReady
  /\ IF ok
     THEN /\ modelResult' = Tagged(classify(k, j), "classical-ml")
          /\ tier' = [tier EXCEPT ![3] = "ok"]
          /\ apc' = "assemble"
     ELSE /\ tier' = [tier EXCEPT ![3] = "failed"]
          /\ apc' = "stub"
          /\ UNCHANGED modelResult
  /\ UNCHANGED <<page, file, imageUrl, record, rows, display>>
  /\ UNCHANGED <<chanVars, auxVars>>

\* catch (classicalError): getLocalDiseaseData(random id), synchronous;
\* approachUsed = "random-fallback"
TierStub(k, j) ==
  /\ apc = "stub"
  /\ ~MicrotaskReady
  /\ modelResult' = Tagged(getLocalDiseaseData(k, j), "random-fallback")
  /\ tier' = [tier EXCEPT ![4] = "ok"]
  /\ apc' = "assemble"
  /\ UNCHANGED <<page, file, imageUrl, record, rows, display>>
  /\ UNCHANGED <<chanVars, auxVars>>

\* getDiseaseInfo(modelResult.diseaseId), which throws for an unknown id, and
\* the DiagnosisResult literal
AssembleRecord ==
  /\ apc = "assemble"
  /\ ~MicrotaskReady
  /\ IF KnownDisease(modelResult.diseaseId)
     THEN /\ record' = Assemble(modelResult, imageUrl)
          /\ apc' = "save"
     ELSE /\ apc' = "catchModel"
          /\ UNCHANGED record
  /\ UNCHANGED <<page, file, imageUrl, tier, modelResult, rows, display>>
  /\ UNCHANGED <<chanVars, auxVars>>

\* analyzePlantImage returns: its argument and its locals are gone, the
\* caller holds the record
AnalysisOver ==
  /\ file' = GoodFile
  /\ imageUrl' = ""
  /\ tier' = [t \in 1..4 |-> "idle"]
  /\ modelResult' = NoResult

\* try { await saveDiagnosisToDatabase(diagnosisResult) } catch { log };
\* return diagnosisResult
SaveAndReturn(connected, inserted) ==
  /\ apc = "save"
  /\ ~MicrotaskReady
  /\ rows' = IF connected /\ record.confidenceScore >= MinSaveConfidence /\ inserted
             THEN rows \cup {record.id}
             ELSE rows
  /\ apc' = "returned"
  /\ AnalysisOver
  /\ UNCHANGED <<page, record, display>>
  /\ UNCHANGED <<chanVars, auxVars>>

\* catch (modelError): return a fallback diagnosis of a random disease
CatchModelError(k, j) ==
  /\ apc = "catchModel"
  /\ ~MicrotaskReady
  /\ record' = Assemble(FallbackDiagnosis(k, j), imageUrl)
  /\ apc' = "returned"
  /\ AnalysisOver
  /\ UNCHANGED <<page, rows, display>>
  /\ UNCHANGED <<chanVars, auxVars>>

\* diagnosis page: setDiagnosisResult(result), the result is rendered
DiagnosisPageShow ==
  /\ apc = "returned"
  /\ page = "diagnosis"
  /\ ~MicrotaskReady
  /\ display' = "record"
  /\ apc' = "shown"
  /\ UNCHANGED <<page, file, imageUrl, tier, modelResult, record, rows>>
  /\ UNCHANGED <<chanVars, auxVars>>

\* home page: router.push(`/diagnosis/${result.id}`); the detail page loads
\* getDiagnosisById(id) and renders the row or 'Diagnosis record not found'
HomeRedirect(connected, fetched) ==
  /\ apc = "returned"
  /\ page = "home"
  /\ ~MicrotaskReady
  /\ display' = IF connected /\ fetched /\ record.id \in rows
                THEN "record" ELSE "notFound"
  /\ apc' = "shown"
  /\ UNCHANGED <<page, file, imageUrl, tier, modelResult, record, rows>>
  /\ UNCHANGED <<chanVars, auxVars>>

Pipeline ==
  \/ \E pg \in {"home", "diagnosis"} : \E f \in Files : Submit(pg, f)
  \/ \E connected, uploaded \in BOOLEAN : UploadImage(connected, uploaded)
  \/ \E compressed \in BOOLEAN : Preprocess(compressed)
  \/ Tier1Begin
  \/ Tier1Call
  \/ Tier1Throws
  \/ \E k \in Rand : \E j \in 0..RandDen : Tier1End(k, j)
  \/ Tier2Begin
  \/ \E ok \in BOOLEAN : \E k \in Rand : \E j \in 0..RandDen : Tier2End(ok, k, j)
  \/ Tier3Begin
  \/ \E ok \in BOOLEAN : \E k, j \in Rand : Tier3End(ok, k, j)
  \/ \E k, j \in Rand : TierStub(k, j)
  \/ AssembleRecord
  \/ \E connected, inserted \in BOOLEAN : SaveAndReturn(connected, inserted)
  \/ \E k, j \in Rand : CatchModelError(k, j)
  \/ DiagnosisPageShow
  \/ \E connected, fetched \in BOOLEAN : HomeRedirect(connected, fetched)

----------------------------------------------------------------------------
\* The image-processing worker channel: image-processor's getWorker,
\* preprocessImage and segmentImage, and the image worker's listener.  A
\* request has no id: its handler is a "message" listener that removes itself
\* at the first message and settles its promise with it.

\* Bound on the number of preprocessImage / segmentImage calls.
MaxImgRequests == 3

\* what the image-worker channel leaves alone
notImgVars == <<chanVars, pipeVars, camVars, dxVars, storeVars, valVars, segVars, resVars>>

ImgInit ==
  /\ iworker = "null"
  /\ ilisteners = {}
  /\ ireqs = << >>
  /\ iinbox = {}
  /\ ioutbox = << >>

\* a call's promise: stage "awaitWorker" (await getWorker()), "posted",
\* "resolved", "rejected", or "fallback" (the catch returned imageData);
\* by = the request whose response settled it, 0 for the 'ready' message,
\* -1 for none
ImgReq(type, stage) == [type |-> type, stage |-> stage, by |-> -1]

ReadyListener == 0

ReadyMessage == [status |-> "ready", req |-> 0]

\* getWorker() with no worker yet: new Worker(...), the 'ready' listener and
\* the error listener are installed; the caller awaits the promise.  The
\* worker posts {status: "ready"} once its script has run.
ImgCallCreates(type) ==
  /\ iworker = "null"
  /\ iworker' = "w"
  /\ ilisteners' = ilisteners \cup {ReadyListener}
  /\ ioutbox' = Append(ioutbox, ReadyMessage)
  /\ ireqs' = Append(ireqs, ImgReq(type, "awaitWorker"))
  /\ UNCHANGED iinbox

\* getWorker() with no worker yet and new Worker(...) throwing: reject, and
\* the catch of preprocessImage / segmentImage returns imageData
ImgCallCreateThrows(type) ==
  /\ iworker = "null"
  /\ ireqs' = Append(ireqs, ImgReq(type, "fallback"))
  /\ UNCHANGED <<iworker, ilisteners, iinbox, ioutbox>>

\* getWorker() with a worker: Promise.resolve(worker); the handler is added
\* and the request posted
ImgCallPosts(type) ==
  /\ iworker = "w"
  /\ ireqs' = Append(ireqs, ImgReq(type, "posted"))
  /\ ilisteners' = ilisteners \cup {Len(ireqs) + 1}
  /\ iinbox' = iinbox \cup {Len(ireqs) + 1}
  /\ UNCHANGED <<iworker, ioutbox>>

\* preprocessImage(imageData) / segmentImage(imageData) up to its await
ImgCall(type) ==
  /\ Len(ireqs) < MaxImgRequests
  /\ \/ ImgCallCreates(type)
     \/ ImgCallCreateThrows(type)
     \/ ImgCallPosts(type)
  /\ UNCHANGED notImgVars

\* the image worker's listener handles request n and posts
\* {status: "success", result} or {status: "error", error}
ImgWorkerAnswers(n, ok) ==
  /\ n \in iinbox
  /\ iinbox' = iinbox \ {n}
  /\ ioutbox' = Append(ioutbox, [status |-> IF ok THEN "success" ELSE "error", req |-> n])
  /\ UNCHANGED <<iworker, ilisteners, ireqs>>
  /\ UNCHANGED notImgVars

\* a message of the worker is dispatched to the listeners installed at that
\* time.  getWorker's listener: on 'ready' it removes itself and resolves,
\* and the awaiting call goes on to add its handler and post.  A request's
\* handler: removes itself, resolves on "success", rejects otherwise.
ImgDeliver ==
  /\ ioutbox # << >>
  /\ LET m == Head(ioutbox)
         handlers == ilisteners \ {ReadyListener}
         ready == m.status = "ready" /\ ReadyListener \in ilisteners
         resumed == IF ready
                    THEN {n \in DOMAIN ireqs : ireqs[n].stage = "awaitWorker"}
                    ELSE {}
     IN /\ ioutbox' = Tail(ioutbox)
        /\ ilisteners' = ((ilisteners \ handlers) \ (IF ready THEN {ReadyListener} ELSE {}))
                            \cup resumed
        /\ iinbox' = iinbox \cup resumed
        /\ ireqs' = [n \in DOMAIN ireqs |->
                       IF n \in handlers
                       THEN [ireqs[n] EXCEPT
                               !.stage = IF m.status = "success" THEN "resolved" ELSE "rejected",
                               !.by = m.req]
                       ELSE IF n \in resumed
                       THEN [ireqs[n] EXCEPT !.stage = "posted"]
                       ELSE ireqs[n]]
  /\ UNCHANGED iworker
  /\ UNCHANGED notImgVars

\* the worker's "error" event: getWorker's promise is rejected, and the catch
\* of a call that awaits it returns imageData
ImgWorkerError ==
  /\ iworker = "w"
  /\ ireqs' = [n \in DOMAIN ireqs |->
                 IF ireqs[n].stage = "awaitWorker"
                 THEN [ireqs[n] EXCEPT !.stage = "fallback"]
                 ELSE ireqs[n]]
  /\ UNCHANGED <<iworker, ilisteners, iinbox, ioutbox>>
  /\ UNCHANGED notImgVars

----------------------------------------------------------------------------
\* ImageUploadSection: the camera stream of the capture tab.

\* Bound on the number of getUserMedia calls of one component instance.
MaxCameraStarts == 3

notCamVars == <<chanVars, pipeVars, imgVars, dxVars, storeVars, valVars, segVars, resVars>>

CamInit ==
  /\ mounted = TRUE
  /\ activeTab = "upload"
  /\ previewUrl = FALSE
  /\ isCameraActive = FALSE
  /\ streamRef = 0
  /\ liveStreams = {}
  /\ gumCalls = {}
  /\ started = 0
  /\ restartTimers = 0
  /\ mediaDevices = "unprobed"

\* videoRef.current: the <video> is rendered inside TabsContent "camera"
VideoRefCurrent == mounted /\ activeTab = "camera"

\* setActiveTab does nothing on an unmounted component
SetActiveTab(t) == activeTab' = IF mounted THEN t ELSE activeTab

\* stopCamera(): stop every track of streamRef.current, clear the ref
StopCamera ==
  /\ liveStreams' = liveStreams \ {streamRef}
  /\ streamRef' = 0
  /\ isCameraActive' = FALSE

\* startCamera() up to its first await; tab is the value of activeTab set by
\* the caller before the call
StartCamera(tab) ==
  \E found \in {"present", "absent"} :
    /\ mediaDevices \in {"unprobed", found}
    /\ mediaDevices' = found
    /\ IF found = "absent"
       THEN \* throw before stopCamera(); catch: setError, setActiveTab("upload")
            /\ SetActiveTab("upload")
            /\ UNCHANGED <<isCameraActive, streamRef, liveStreams, gumCalls, started>>
       ELSE /\ StopCamera
            /\ started' = started + 1
            /\ gumCalls' = gumCalls \cup {[n |-> started + 1, stage |-> "first"]}
            /\ SetActiveTab(tab)

\* the Camera tab trigger: handleCameraTabSelect
HandleCameraTabSelect ==
  /\ mounted
  /\ started + restartTimers < MaxCameraStarts
  /\ StartCamera("camera")
  /\ UNCHANGED <<mounted, previewUrl, restartTimers>>
  /\ UNCHANGED notCamVars

\* getUserMedia resolves with a live stream; it is kept only if the <video>
\* is there
GetUserMediaResolves(c) ==
  /\ c \in gumCalls
  /\ gumCalls' = gumCalls \ {c}
  /\ liveStreams' = liveStreams \cup {c.n}
  /\ IF VideoRefCurrent
     THEN /\ streamRef' = c.n
          /\ isCameraActive' = TRUE
     ELSE UNCHANGED <<streamRef, isCameraActive>>
  /\ UNCHANGED <<mounted, activeTab, previewUrl, started, restartTimers, mediaDevices>>
  /\ UNCHANGED notCamVars

\* getUserMedia rejects: the first call is followed by one for the other
\* camera; the second one's rejection reaches the outer catch
GetUserMediaRejects(c) ==
  /\ c \in gumCalls
  /\ IF c.stage = "first"
     THEN /\ gumCalls' = (gumCalls \ {c}) \cup {[c EXCEPT !.stage = "other"]}
          /\ UNCHANGED activeTab
     ELSE /\ gumCalls' = gumCalls \ {c}
          /\ SetActiveTab("upload")
  /\ UNCHANGED <<mounted, previewUrl, isCameraActive, streamRef, liveStreams,
                 started, restartTimers, mediaDevices>>
  /\ UNCHANGED notCamVars

\* Tabs onValueChange={setActiveTab} for the Upload and Preview triggers, and
\* the "Continue with Selected Image" button
TabsOnValueChange(t) ==
  /\ mounted
  /\ t \in {"upload"} \cup (IF previewUrl THEN {"preview"} ELSE {})
  /\ t # activeTab
  /\ activeTab' = t
  /\ UNCHANGED <<mounted, previewUrl, isCameraActive, streamRef, liveStreams,
                 gumCalls, started, restartTimers, mediaDevices>>
  /\ UNCHANGED notCamVars

\* capturePhoto with the toBlob callback: handleFileChange(file),
\* stopCamera(), setActiveTab("preview")
CapturePhoto ==
  /\ VideoRefCurrent
  /\ isCameraActive
  /\ previewUrl' = TRUE
  /\ StopCamera
  /\ activeTab' = "preview"
  /\ UNCHANGED <<mounted, gumCalls, started, restartTimers, mediaDevices>>
  /\ UNCHANGED notCamVars

\* toggleCameraFacing: stopCamera() and a timer that calls startCamera()
ToggleCameraFacing ==
  /\ VideoRefCurrent
  /\ isCameraActive
  /\ started + restartTimers < MaxCameraStarts
  /\ StopCamera
  /\ restartTimers' = restartTimers + 1
  /\ UNCHANGED <<mounted, activeTab, previewUrl, gumCalls, started, mediaDevices>>
  /\ UNCHANGED notCamVars

\* the timer of toggleCameraFacing fires
RestartTimerFires ==
  /\ restartTimers > 0
  /\ restartTimers' = restartTimers - 1
  /\ StartCamera(activeTab)
  /\ UNCHANGED <<mounted, previewUrl>>
  /\ UNCHANGED notCamVars

\* a file is chosen or dropped on the upload tab: handleFileChange sets a new
\* previewUrl, and the effect's cleanup (deps [previewUrl]) runs stopCamera()
HandleFileChange ==
  /\ mounted
  /\ activeTab = "upload"
  /\ previewUrl' = TRUE
  /\ StopCamera
  /\ UNCHANGED <<mounted, activeTab, gumCalls, started, restartTimers, mediaDevices>>
  /\ UNCHANGED notCamVars

\* clearImage on the preview tab; previewUrl changes, so the effect's cleanup
\* runs stopCamera()
ClearImage ==
  /\ mounted
  /\ activeTab = "preview"
  /\ previewUrl
  /\ previewUrl' = FALSE
  /\ activeTab' = "upload"
  /\ StopCamera
  /\ UNCHANGED <<mounted, gumCalls, started, restartTimers, mediaDevices>>
  /\ UNCHANGED notCamVars

\* the component unmounts: the effect's cleanup runs stopCamera()
Unmount ==
  /\ mounted
  /\ mounted' = FALSE
  /\ StopCamera
  /\ UNCHANGED <<activeTab, previewUrl, gumCalls, started, restartTimers, mediaDevices>>
  /\ UNCHANGED notCamVars

----------------------------------------------------------------------------
\* The Diagnosis Assembler of analyzePlantImage on its own: one classification
\* in, one DiagnosisResult out.

notDxVars == <<chanVars, pipeVars, imgVars, camVars, storeVars, valVars, segVars, resVars>>

DxInit ==
  /\ dxInput = NoResult
  /\ dxRecord = NoRecord

\* identifiers that are not in DISEASE_CLASSES
UnknownIds == {"leaf_curl"}

\* a classification with an identifier the lookup has no class for
UnknownClassification(p) ==
  [diseaseId |-> CHOOSE d \in UnknownIds : TRUE, confidence |-> Percent(p),
   producer |-> "other", tag |-> ""]

\* a tier has produced modelResult
DxClassified(r) ==
  /\ dxInput' = r
  /\ dxRecord' = NoRecord
  /\ UNCHANGED notDxVars

\* getDiseaseInfo(modelResult.diseaseId) and the DiagnosisResult literal; a
\* throw of getDiseaseInfo is caught by catch (modelError), which returns the
\* fallback diagnosis of a random disease
DxAssemble ==
  /\ dxInput # NoResult
  /\ dxRecord = NoRecord
  /\ IF KnownDisease(dxInput.diseaseId)
     THEN dxRecord' = Assemble(dxInput, "url")
     ELSE \E k, j \in Rand : dxRecord' = Assemble(FallbackDiagnosis(k, j), "url")
  /\ UNCHANGED dxInput
  /\ UNCHANGED notDxVars

----------------------------------------------------------------------------
\* The Result Store Gateway: saveDiagnosisToDatabase, getDiagnosisHistory,
\* getDiagnosisById, deleteDiagnosisFromHistory, submitDiagnosisFeedback.

notStoreVars == <<chanVars, pipeVars, imgVars, camVars, dxVars, valVars, segVars, resVars>>

\* an image URL as the sequence of its parts; the last one is the last
\* segment of the pathname
\* const filePath = `plant-images/${fileName}`: the key of the uploaded object
filePath(fileName) == <<"plant-images", fileName>>

\* supabase.storage.from("plant-images").getPublicUrl(key).publicUrl
getPublicUrl(key) ==
  <<"https:", "project.supabase.co", "storage", "v1", "object", "public", "plant-images">> \o key

PublicUrl == getPublicUrl(filePath("r75.jpg"))
BlobUrl == <<"blob:", "http:", "localhost:3000", "6f1c">>
PlaceholderUrl == <<"https:", "images", "unsplash.com", "photo-1622557850710">>

\* image_path.includes(part)
Includes(path, part) == \E i \in DOMAIN path : path[i] = part

\* new URL(image_path).pathname.split("/") last element
Filename(path) == path[Len(path)]

\* DiagnosisResults handed to saveDiagnosisToDatabase: uuids are distinct
StoreRecords ==
  {[id |-> "r60", confidenceScore |-> 60, imageUrl |-> getPublicUrl(filePath("r60.jpg"))],
   [id |-> "r74", confidenceScore |-> 74, imageUrl |-> BlobUrl],
   [id |-> "r75", confidenceScore |-> 75, imageUrl |-> PublicUrl],
   [id |-> "r90", confidenceScore |-> 90, imageUrl |-> BlobUrl],
   [id |-> "r95", confidenceScore |-> 95, imageUrl |-> PlaceholderUrl]}

StoreIds == {r.id : r \in StoreRecords}

\* outcomes of the probe query select('id').limit(1): data, an
\* authentication error, another error (network, missing table), a throw
ProbeResults == {"ok", "auth", "error", "throws"}

\* checkSupabaseConnection()
checkSupabaseConnection(probe) == probe \notin {"auth", "throws"}

\* the probe query has failed
ProbeFailed(probe) == probe # "ok"

Row(r) == [id |-> r.id, confidence_score |-> r.confidenceScore, image_path |-> r.imageUrl]

RowOf(id) == CHOOSE row \in diagnoses : row.id = id

Stored(id) == \E row \in diagnoses : row.id = id

NoOp ==
  [op |-> "none", id |-> "", probe |-> "ok", outcome |-> "returned",
   wrote |-> FALSE, removed |-> FALSE, result |-> {}]

Op(op, id, probe, outcome, wrote, removed, result) ==
  [op |-> op, id |-> id, probe |-> probe, outcome |-> outcome,
   wrote |-> wrote, removed |-> removed, result |-> result]

\* the files uploadImage names (uuid and extension)
UploadNames == {"r60.jpg", "r75.jpg"}

\* url is the public URL of an uploaded object
Uploaded(url) == \E f \in UploadNames : url = getPublicUrl(filePath(f))

\* the key under which uploadImage stored the object with this public URL
KeyIn(url) == CHOOSE k \in {filePath(f) : f \in UploadNames} : url = getPublicUrl(k)

\* supabase.storage.from("plant-images").remove([filename])
RemovedKey(path) == <<Filename(path)>>

StoreInit ==
  /\ diagnoses = {}
  /\ feedback = {}
  /\ lastOp = NoOp
  /\ details = {}
  /\ bucket = {}

\* if (result.confidenceScore < 75) return
ConfidentAlways(r) == TRUE

Confident(r) == ~(r.confidenceScore < MinSaveConfidence)

\* saveDiagnosisToDatabase(result); inserted, detailed: the two inserts
\* returned no error
SaveDiagnosisToDatabase(r, probe, inserted, detailed) ==
  /\ ~Stored(r.id)
  /\ Uploaded(r.imageUrl) => KeyIn(r.imageUrl) \in bucket
  /\ IF ~checkSupabaseConnection(probe) \/ ~Confident(r)
     THEN /\ lastOp' = Op("save", r.id, probe, "returned", FALSE, FALSE, {})
          /\ UNCHANGED <<diagnoses, details>>
     ELSE /\ diagnoses' = IF inserted THEN diagnoses \cup {Row(r)} ELSE diagnoses
          /\ details' = IF inserted /\ detailed THEN details \cup {r.id} ELSE details
          /\ lastOp' = Op("save", r.id, probe,
                          IF inserted /\ detailed THEN "returned" ELSE "threw",
                          TRUE, FALSE, {})
  /\ UNCHANGED <<feedback, bucket>>
  /\ UNCHANGED notStoreVars

\* getDiagnosisHistory(); selected: the select of diagnoses returned no
\* error; skipped: rows whose details select failed
GetDiagnosisHistory(probe, selected, skipped) ==
  /\ skipped \subseteq diagnoses
  /\ lastOp' = Op("history", "", probe, "returned", FALSE, FALSE,
                  IF checkSupabaseConnection(probe) /\ selected
                  THEN {row.id : row \in diagnoses \ skipped}
                  ELSE {})
  /\ UNCHANGED <<diagnoses, feedback, details, bucket>>
  /\ UNCHANGED notStoreVars

\* getDiagnosisById(id): the record, or null (result {})
GetDiagnosisById(id, probe, selected) ==
  /\ lastOp' = Op("byId", id, probe, "returned", FALSE, FALSE,
                  IF checkSupabaseConnection(probe) /\ selected /\ Stored(id)
                  THEN {id} ELSE {})
  /\ UNCHANGED <<diagnoses, feedback, details, bucket>>
  /\ UNCHANGED notStoreVars

\* the condition of the storage removal and the filename test inside it
RemovalDue(path) ==
  /\ path # << >>
  /\ ~Includes(path, "unsplash.com")
  /\ ~Includes(path, "blob:")
  /\ Filename(path) # ""

\* deleteDiagnosisFromHistory(id); pathRead: the select of image_path
\* returned the row; deleted: the delete returned no error
DeleteDiagnosisFromHistory(id, probe, pathRead, deleted) ==
  LET path == IF pathRead /\ Stored(id) THEN RowOf(id).image_path ELSE << >> IN
  /\ IF ~checkSupabaseConnection(probe)
     THEN /\ lastOp' = Op("delete", id, probe, "returned", FALSE, FALSE, {})
          /\ UNCHANGED <<diagnoses, feedback, details, bucket>>
     ELSE IF ~deleted
     THEN /\ lastOp' = Op("delete", id, probe, "threw", TRUE, FALSE, {})
          /\ UNCHANGED <<diagnoses, feedback, details, bucket>>
     ELSE /\ diagnoses' = {row \in diagnoses : row.id # id}
          /\ details' = details \ {id}
          /\ feedback' = feedback \ {id}
          /\ bucket' = IF RemovalDue(path) THEN bucket \ {RemovedKey(path)} ELSE bucket
          /\ lastOp' = Op("delete", id, probe, "returned", TRUE, RemovalDue(path),
                          IF Stored(id) THEN {id} ELSE {})
  /\ UNCHANGED notStoreVars

\* submitDiagnosisFeedback(id, isHelpful, comments); updated: the update
\* returned no error
SubmitDiagnosisFeedback(id, probe, updated) ==
  /\ IF ~checkSupabaseConnection(probe)
     THEN /\ lastOp' = Op("feedback", id, probe, "returned", FALSE, FALSE, {})
          /\ UNCHANGED feedback
     ELSE /\ feedback' = IF updated /\ id \in details THEN feedback \cup {id} ELSE feedback
          /\ lastOp' = Op("feedback", id, probe,
                          IF updated THEN "returned" ELSE "threw", TRUE, FALSE, {})
  /\ UNCHANGED <<diagnoses, details, bucket>>
  /\ UNCHANGED notStoreVars

\* uploadImage(image) for the file named f; uploaded: the upload returned no
\* error.  Not connected or not uploaded: an object URL is returned and the
\* bucket is as before.
UploadToBucket(f, probe, uploaded) ==
  /\ filePath(f) \notin bucket
  /\ bucket' = IF checkSupabaseConnection(probe) /\ uploaded
                THEN bucket \cup {filePath(f)} ELSE bucket
  /\ UNCHANGED <<diagnoses, feedback, lastOp, details>>
  /\ UNCHANGED notStoreVars

----------------------------------------------------------------------------
\* The Image Validator on its own: processImageForModel up to compressImage.

notValVars == <<chanVars, pipeVars, imgVars, camVars, dxVars, storeVars, segVars, resVars>>

\* files of every combination of type, size, decodability, canvas
\* readability, smaller side and mean brightness around the thresholds
Images ==
  [type : {"image/jpeg", "image/png", "text/plain"},
   size : {204800, MaxFileBytes, MaxFileBytes + 1},
   loads : BOOLEAN,
   readable : BOOLEAN,
   minDim : {10, MinDimension - 1, MinDimension, 400},
   brightness : {10, DarkThreshold - 1, DarkThreshold, 128,
                 BrightThreshold, BrightThreshold + 1}]

ValInit ==
  /\ vfile = GoodFile
  /\ vreason = ""

\* processImageForModel(file): validateImage, then checkImageContent
ValidateFile(f) ==
  /\ vfile' = f
  /\ vreason' = processImageForModel(f)
  /\ UNCHANGED notValVars

----------------------------------------------------------------------------
\* The image worker's segmentImage on its own.

\* Bound on the number of pixels of a buffer.
MaxPixels == 2

notSegVars == <<chanVars, pipeVars, imgVars, camVars, dxVars, storeVars, valVars, resVars>>

Pixel(r, g, b) == [r |-> r, g |-> g, b |-> b, a |-> 255]

\* 8-bit pixels: grey ones, ones with green twice red and blue, ones at the
\* edge of the default threshold, and ones with red and blue unequal
SamplePixels ==
  {Pixel(v, v, v) : v \in {0, 1, 100, 240, 255}}
    \cup {Pixel(v, 2 * v, v) : v \in {0, 1, 50, 127}}
    \cup {Pixel(10, 11, 10), Pixel(10, 12, 10), Pixel(100, 110, 100),
          Pixel(100, 111, 100), Pixel(10, 200, 190), Pixel(190, 200, 10)}

Buffers == UNION {[1..n -> SamplePixels] : n \in 1..MaxPixels}

\* options.threshold in tenths; 0 stands for an absent or zero threshold
Thresholds == {0, 11, 20}

\* const threshold = options.threshold || 1.1
EffectiveThreshold(t) == IF t = 0 THEN 11 ELSE t

\* g > r * threshold && g > b * threshold, threshold = t / 10.  For 8-bit
\* integers the floating-point comparison agrees with the exact one.
KeptOrEqual(p, t) == 10 * p.g >= p.r * t /\ 10 * p.g >= p.b * t

Kept(p, t) == 10 * p.g > p.r * t /\ 10 * p.g > p.b * t

\* the result pixel: the original one, or white transparent, or light grey
SegmentPixel(p, t, transparentBackground) ==
  IF Kept(p, t) THEN p
  ELSE IF transparentBackground THEN [r |-> 255, g |-> 255, b |-> 255, a |-> 0]
  ELSE [r |-> 240, g |-> 240, b |-> 240, a |-> p.a]

SegInit ==
  /\ segInput = [pixels |-> << >>, threshold |-> 0]
  /\ segResult = << >>
  /\ segKept = << >>

\* segmentImage(imageData, options), applied once
SegmentImage(buf, t, transparentBackground) ==
  /\ segInput.pixels = << >>
  /\ segInput' = [pixels |-> buf, threshold |-> t]
  /\ segResult' = [i \in DOMAIN buf |->
                     SegmentPixel(buf[i], EffectiveThreshold(t), transparentBackground)]
  /\ segKept' = [i \in DOMAIN buf |-> Kept(buf[i], EffectiveThreshold(t))]
  /\ UNCHANGED notSegVars

----------------------------------------------------------------------------
\* Object URLs and tensors: processImageData (the worker's predict),
\* processImageForPrediction / predictDisease (main thread), and
\* preprocessImage of ml-model.  A resource is live from its allocation
\* (URL.createObjectURL, a tf operation's result) to its release
\* (URL.revokeObjectURL, tf.dispose); tf.disposeVariables() releases
\* variables, which none of these are.

\* Bound on the number of calls.
MaxAttempts == 2

\* what these functions leave alone
notResVars == <<chanVars, pipeVars, imgVars, camVars, dxVars, storeVars, valVars, segVars>>

ResInit ==
  /\ resFn = "none"
  /\ resPc = "idle"
  /\ resLive = {}
  /\ resAttempt = 0

ResFunctions == {"processImageData", "processImageForPrediction", "preprocessImage"}

\* the resources named, as allocated by the running call
Mine(names) == {[n |-> resAttempt, res |-> x] : x \in names}

Allocate(names) == resLive \cup Mine(names)

Release(live, names) == live \ Mine(names)

\* tf.browser.fromPixels, tf.image.resizeBilinear, and
\* resized.toFloat().div(tf.scalar(127.5)).sub(tf.scalar(1)) with its two
\* scalars, in the order they are created
PixelTensors == <<"tensor", "resized", "scalars", "normalized">>

\* predictDisease: the same, then normalized.expandDims(0)
InputTensors == <<"imageTensor", "resized", "scalars", "normalized", "batched">>

Prefix(seq, k) == {seq[i] : i \in 1..k}

\* a call begins
ResStart(fn) ==
  /\ resPc \in {"idle", "returned", "threw"}
  /\ resAttempt < MaxAttempts
  /\ resAttempt' = resAttempt + 1
  /\ resFn' = fn
  /\ resPc' = "start"
  /\ UNCHANGED resLive
  /\ UNCHANGED notResVars

\* ---- processImageData(imageData), model-worker's 'predict'

\* the tensors are created; made < 4: a tf operation throws after the
\* first `made` of them, and the catch rethrows.  loaded = mobileNetModel
\* is set.
PidTensors(made, loaded) ==
  /\ resFn = "processImageData" /\ resPc = "start"
  /\ resLive' = Allocate(Prefix(PixelTensors, made))
  /\ resPc' = IF made < Len(PixelTensors) THEN "threw"
              ELSE IF loaded THEN "classify" ELSE "initModels"
  /\ UNCHANGED <<resFn, resAttempt>>
  /\ UNCHANGED notResVars

\* await initModels(): it returns false on failure, and
\* mobileNetModel.classify then throws on null; the catch rethrows
PidInitModels(ok) ==
  /\ resFn = "processImageData" /\ resPc = "initModels"
  /\ resPc' = IF ok THEN "classify" ELSE "threw"
  /\ UNCHANGED <<resFn, resLive, resAttempt>>
  /\ UNCHANGED notResVars

\* await mobileNetModel.classify(...): on success
\* tf.dispose([tensor, resized, normalized]) and return; on failure the
\* catch rethrows
PidClassify(ok) ==
  /\ resFn = "processImageData" /\ resPc = "classify"
  /\ resLive' = IF ok THEN Release(resLive, {"tensor", "resized", "normalized"})
                ELSE resLive
  /\ resPc' = IF ok THEN "returned" ELSE "threw"
  /\ UNCHANGED <<resFn, resAttempt>>
  /\ UNCHANGED notResVars

\* ---- processImageForPrediction(imageFile) and predictDisease(image)

\* const url = URL.createObjectURL(imageFile); image.src = url
PfpStart ==
  /\ resFn = "processImageForPrediction" /\ resPc = "start"
  /\ resLive' = Allocate({"url"})
  /\ resPc' = "load"
  /\ UNCHANGED <<resFn, resAttempt>>
  /\ UNCHANGED notResVars

\* image.onload: predictDisease starts; image.onerror: revoke, reject
PfpLoad(ok) ==
  /\ resFn = "processImageForPrediction" /\ resPc = "load"
  /\ resLive' = IF ok THEN resLive ELSE Release(resLive, {"url"})
  /\ resPc' = IF ok THEN "models" ELSE "threw"
  /\ UNCHANGED <<resFn, resAttempt>>
  /\ UNCHANGED notResVars

\* predictDisease: the models are there, or initializeModels fails / the
\* models are not available: throw, and the caller's catch revokes the url
PdModels(ok) ==
  /\ resFn = "processImageForPrediction" /\ resPc = "models"
  /\ resLive' = IF ok THEN resLive ELSE Release(resLive, {"url"})
  /\ resPc' = IF ok THEN "tensors" ELSE "threw"
  /\ UNCHANGED <<resFn, resAttempt>>
  /\ UNCHANGED notResVars

\* imageTensor, resized, normalized, batched are created, before the inner
\* try; made < 5: a tf operation throws after the first `made`, the outer
\* catch rethrows and the caller's catch revokes the url
PdTensors(made) ==
  /\ resFn = "processImageForPrediction" /\ resPc = "tensors"
  /\ resLive' = IF made < Len(InputTensors)
                THEN Release(Allocate(Prefix(InputTensors, made)), {"url"})
                ELSE Allocate(Prefix(InputTensors, made))
  /\ resPc' = IF made < Len(InputTensors) THEN "threw" ELSE "infer"
  /\ UNCHANGED <<resFn, resAttempt>>
  /\ UNCHANGED notResVars

\* what the inner catch and the success path dispose
Disposed == {"imageTensor", "resized", "normalized", "batched"}

\* inference.  "classify": mobileNetModel.classify(imageElement).  "raw":
\* logits, probabilities, topValues, topIndices are created and disposed
\* after the awaits.  A failure is caught by the inner catch:
\* tf.dispose([imageTensor, resized, normalized, batched]), throw, and the
\* caller's catch revokes the url.
PdInfer(branch, ok) ==
  /\ resFn = "processImageForPrediction" /\ resPc = "infer"
  /\ resLive' =
       IF ok THEN resLive
       ELSE LET made == IF branch = "raw" THEN Allocate({"logits", "probabilities"})
                        ELSE resLive
            IN Release(made, Disposed \cup {"url"})
  /\ resPc' = IF ok THEN "features" ELSE "threw"
  /\ UNCHANGED <<resFn, resAttempt>>
  /\ UNCHANGED notResVars

\* imageTensor.mean([0, 1]) and edgesTensor.mean() are created and read;
\* edgesTensor is disposed; then tf.dispose of the four, return, and the
\* caller revokes the url.  On a failure of an await the inner catch runs.
PdFeatures(ok) ==
  /\ resFn = "processImageForPrediction" /\ resPc = "features"
  /\ resLive' = Release(Allocate(IF ok THEN {"colorMean", "edgeMean"} ELSE {"colorMean"}),
                        Disposed \cup {"url"})
  /\ resPc' = IF ok THEN "returned" ELSE "threw"
  /\ UNCHANGED <<resFn, resAttempt>>
  /\ UNCHANGED notResVars

\* ---- preprocessImage(imageFile) of ml-model

\* optimizeImageForModel succeeds: return; it throws: the catch creates the
\* object URL and waits for the image to load
PreStart(ok) ==
  /\ resFn = "preprocessImage" /\ resPc = "start"
  /\ resLive' = IF ok THEN resLive ELSE Allocate({"url"})
  /\ resPc' = IF ok THEN "returned" ELSE "load"
  /\ UNCHANGED <<resFn, resAttempt>>
  /\ UNCHANGED notResVars

\* img.onload: go on; img.onerror: the awaited promise rejects and
\* preprocessImage throws
PreLoad(ok) ==
  /\ resFn = "preprocessImage" /\ resPc = "load"
  /\ resPc' = IF ok THEN "context" ELSE "threw"
  /\ UNCHANGED <<resFn, resLive, resAttempt>>
  /\ UNCHANGED notResVars

\* canvas.getContext("2d"): null returns null at once; otherwise draw,
\* getImageData, URL.revokeObjectURL(imageUrl), return
PreContext(ok) ==
  /\ resFn = "preprocessImage" /\ resPc = "context"
  /\ resLive' = IF ok THEN Release(resLive, {"url"}) ELSE resLive
  /\ resPc' = "returned"
  /\ UNCHANGED <<resFn, resAttempt>>
  /\ UNCHANGED notResVars

ChannelEvents ==
  \/ \E m \in inbox : \E kind \in {"ok", "fail", "error"} : WorkerOnMessage(m, kind)
  \/ WorkerOnError
  \/ \E k \in ReqIdx : Timeout(k)

ChannelCalls(C) ==
  \/ \E c \in C : ProcessImageInWorker(c)
  \/ \E c \in C : InitContinue(c)
  \/ \E c \in C : PredictContinue(c)

Init == ChanInit /\ PipeInit /\ ImgInit /\ CamInit /\ DxInit /\ StoreInit /\ ValInit /\ SegInit /\ ResInit

\* The channel under overlapping callers
NextChannel ==
  \/ (\E c \in Clients : CallStart(c)) /\ UNCHANGED <<pipeVars, auxVars>>
  \/ ChannelCalls(Clients) /\ UNCHANGED <<pipeVars, auxVars>>
  \/ ChannelEvents /\ UNCHANGED <<pipeVars, auxVars>>

SpecChannel == Init /\ [][NextChannel]_vars

\* One analysis after the other, over the channel
NextAnalyze ==
  \/ Pipeline
  \/ ChannelCalls({"a1"}) /\ UNCHANGED <<pipeVars, auxVars>>
  \/ ChannelEvents /\ UNCHANGED <<pipeVars, auxVars>>

SpecAnalyze == Init /\ [][NextAnalyze]_vars

\* The image-processing worker channel under overlapping calls
NextImageWorker ==
  \/ \E type \in {"preprocess", "segment"} : ImgCall(type)
  \/ \E n \in iinbox : \E ok \in BOOLEAN : ImgWorkerAnswers(n, ok)
  \/ ImgDeliver
  \/ ImgWorkerError

SpecImageWorker == Init /\ [][NextImageWorker]_vars

\* One ImageUploadSection and its user
NextCamera ==
  \/ HandleCameraTabSelect
  \/ \E c \in gumCalls : GetUserMediaResolves(c)
  \/ \E c \in gumCalls : GetUserMediaRejects(c)
  \/ \E t \in {"upload", "preview"} : TabsOnValueChange(t)
  \/ CapturePhoto
  \/ ToggleCameraFacing
  \/ RestartTimerFires
  \/ HandleFileChange
  \/ ClearImage
  \/ Unmount

SpecCamera == Init /\ [][NextCamera]_vars

\* Every producer of a classification, followed by the assembler
NextDiagnose ==
  \/ \E k \in Rand : \E p \in 0..RandDen : DxClassified(ModelPrediction("worker", k, p))
  \/ \E k, j \in Rand : DxClassified(processFallback(k, j))
  \/ \E k, j \in Rand : DxClassified(getLocalDiseaseData(k, j))
  \/ \E k, j \in FineRand : DxClassified(CNNClassify(k, j))
  \/ \E k, j \in FineRand : DxClassified(RandomForestClassify(k, j))
  \/ \E k, j \in FineRand : DxClassified(SVMClassify(k, j))
  \/ \E p \in 0..RandDen : DxClassified(UnknownClassification(p))
  \/ DxAssemble

SpecDiagnose == Init /\ [][NextDiagnose]_vars

\* The gateway's operations in any order, over a store that may fail
NextStore ==
  \/ \E r \in StoreRecords : \E probe \in ProbeResults : \E inserted, detailed \in BOOLEAN :
       SaveDiagnosisToDatabase(r, probe, inserted, detailed)
  \/ \E probe \in ProbeResults : \E selected \in BOOLEAN : \E skipped \in SUBSET diagnoses :
       GetDiagnosisHistory(probe, selected, skipped)
  \/ \E id \in StoreIds : \E probe \in ProbeResults : \E selected \in BOOLEAN :
       GetDiagnosisById(id, probe, selected)
  \/ \E id \in StoreIds : \E probe \in ProbeResults : \E pathRead, deleted \in BOOLEAN :
       DeleteDiagnosisFromHistory(id, probe, pathRead, deleted)
  \/ \E id \in StoreIds : \E probe \in ProbeResults : \E updated \in BOOLEAN :
       SubmitDiagnosisFeedback(id, probe, updated)
  \/ \E f \in UploadNames : \E probe \in ProbeResults : \E uploaded \in BOOLEAN :
       UploadToBucket(f, probe, uploaded)

SpecStore == Init /\ [][NextStore]_vars

\* The validator applied to one file after another
NextValidate == \E f \in Images : ValidateFile(f)

SpecValidate == Init /\ [][NextValidate]_vars

\* segmentImage applied to a buffer
NextSegment ==
  \E buf \in Buffers : \E t \in Thresholds : \E transparentBackground \in BOOLEAN :
    SegmentImage(buf, t, transparentBackground)

SpecSegment == Init /\ [][NextSegment]_vars

\* The image-worker channel with the event loop's guarantee: a message the
\* worker has posted is dispatched.  Nothing obliges the worker to answer.
SpecImageWorkerFair == SpecImageWorker /\ WF_vars(ImgDeliver)

\* The functions of a tier that allocate object URLs and tensors, called
\* one after the other
NextResources ==
  \/ \E fn \in ResFunctions : ResStart(fn)
  \/ \E made \in 0..Len(PixelTensors) : \E loaded \in BOOLEAN : PidTensors(made, loaded)
  \/ \E ok \in BOOLEAN : PidInitModels(ok)
  \/ \E ok \in BOOLEAN : PidClassify(ok)
  \/ PfpStart
  \/ \E ok \in BOOLEAN : PfpLoad(ok)
  \/ \E ok \in BOOLEAN : PdModels(ok)
  \/ \E made \in 0..Len(InputTensors) : PdTensors(made)
  \/ \E branch \in {"classify", "raw"} : \E ok \in BOOLEAN : PdInfer(branch, ok)
  \/ \E ok \in BOOLEAN : PdFeatures(ok)
  \/ \E ok \in BOOLEAN : PreStart(ok)
  \/ \E ok \in BOOLEAN : PreLoad(ok)
  \/ \E ok \in BOOLEAN : PreContext(ok)

SpecResources == Init /\ [][NextResources]_vars

----------------------------------------------------------------------------
\* Properties of analyzePlantImage (SpecAnalyze)

Tiers == 1..4

Started(t) == tier[t] # "idle"

AllTiersIdle == \A t \in Tiers : tier[t] = "idle"

\* positions inside analyzePlantImage after processImageForModel
InAnalysis ==
  {"tier1", "t1pre", "t1wait", "tier2", "t2run", "tier3", "t3run", "stub",
   "assemble", "save", "catchModel"}

\* where the catch of tier t continues
NextEntry(t) == <<"tier2", "tier3", "stub">>[t]

C1_StartsInOrder ==
  \A t \in Tiers :
    (~Started(t) /\ tier'[t] # "idle") =>
      /\ \A u \in Tiers : u < t => tier[u] = "failed"
      /\ \A u \in Tiers : u # t => tier[u] \notin {"running", "ok"}

C1_StartsOnce ==
  \A t \in Tiers :
    (Started(t) /\ tier'[t] # tier[t]) =>
      \/ tier[t] = "running" /\ tier'[t] \in {"ok", "failed"}
      \/ apc' = "returned"

C1_OneRunning == Cardinality({t \in Tiers : tier[t] = "running"}) <= 1

C1_Tier3Returned ==
  (tier[1] = "failed" /\ tier[2] = "failed" /\ tier[3] = "ok") =>
     /\ tier[4] = "idle"
     /\ modelResult.producer = "classical"
     /\ apc = "save" => record.producer = "classical" /\ record.tag = "classical-ml"
     /\ (apc = "save" /\ apc' = "returned") => record' = record

\* C1: within one analysis a tier starts only when every earlier tier has
\* failed and no tier is running or has succeeded; a tier that has started
\* only goes from running to succeeded or failed, so it starts once; at most
\* one tier is running; and when the worker tier and the main-thread tier
\* have failed and the classical tier has succeeded, the stub has not
\* started and the record returned is the classical tier's.
C1_TierOrder ==
  [][C1_StartsInOrder /\ C1_StartsOnce /\ C1_OneRunning' /\ C1_Tier3Returned]_vars

\* tiers 1 and 2 have thrown, tier 3 has answered, its record is about to be
\* returned
C1_Witness ==
  /\ apc = "save"
  /\ tier[1] = "failed" /\ tier[2] = "failed" /\ tier[3] = "ok" /\ tier[4] = "idle"
  /\ record.producer = "classical"

C2_Fallthrough ==
  \A t \in 1..3 :
    (tier[t] # "failed" /\ tier'[t] = "failed") => apc' = NextEntry(t)

C2_ReturnsRecord ==
  (apc \in InAnalysis /\ apc' \notin InAnalysis) =>
     /\ apc' = "returned"
     /\ record' # NoRecord
     /\ record'.id # ""

\* C2: a tier of 1..3 that fails hands over to the next tier, and once the
\* image has passed processImageForModel the analysis is left only by
\* returning a DiagnosisResult, never by an exception.
C2_CaughtPerTier ==
  [][C2_Fallthrough /\ C2_ReturnsRecord /\ apc' # "thrown"]_vars

\* tiers 1, 2 and 3 have all thrown and the stub's record is about to be
\* returned
C2_Witness ==
  /\ apc = "save"
  /\ \A t \in 1..3 : tier[t] = "failed"
  /\ tier[4] = "ok"
  /\ record.producer = "getLocalDiseaseData"
  /\ processImageForModel(file) = ""

\* C3: tier 1 completes only with a result of the worker's model, and tier 2
\* runs when it has none; in particular without Worker support, or with the
\* initialization attempts used up, tier 1 fails.
C3_Tier2IffNoModelResult ==
  /\ tier[1] = "ok" => modelResult.producer = "worker"
  /\ Started(2) => tier[1] = "failed"
  /\ (apc = "assemble" /\ (~workerSupported \/ fallbackToMainThread)) => tier[1] # "ok"

\* no Worker in this browser, and tier 1 has completed with processFallback's
\* random class while tier 2 has not started
C3_Witness ==
  /\ ~workerSupported
  /\ apc = "assemble"
  /\ tier[1] = "ok"
  /\ ~Started(2)
  /\ modelResult.producer = "processFallback"

\* C4: an image that validateImage or checkImageContent rejects starts no
\* tier, and the analysis does not return a DiagnosisResult for it.
C4_RejectionThrows ==
  [][(apc \in {"preprocess", "catchModel"} /\ processImageForModel(file) # "") =>
       /\ AllTiersIdle'
       /\ apc' # "returned"
       /\ record' = NoRecord]_vars

\* a rejected image in catch (modelError), no tier started
C4_Witness ==
  /\ apc = "catchModel"
  /\ processImageForModel(file) # ""
  /\ AllTiersIdle

Stubs == {"getLocalDiseaseData", "processFallback", "catchFallback"}

\* C5: a classification made by one of the randomized stubs carries the tag
\* "random-fallback", in modelResult and in the record built from it.
C5_StubTagged ==
  /\ modelResult.producer \in Stubs => modelResult.tag = "random-fallback"
  /\ record.producer \in Stubs => record.tag = "random-fallback"

\* processFallback's random class under the worker tier's tag
C5_Witness ==
  /\ apc = "save"
  /\ record.producer = "processFallback"
  /\ record.tag = "tensorflow-worker"

\* C6: once the analysis has returned its record and the page has handled
\* it, the page shows that record, saved or not.
C6_RecordShown ==
  (apc = "shown" /\ record # NoRecord) => display = "record"

\* the home page after an analysis whose record was not saved
C6_Witness ==
  /\ apc = "shown"
  /\ page = "home"
  /\ record # NoRecord
  /\ record.id \notin rows
  /\ display = "notFound"

----------------------------------------------------------------------------
\* Properties of the worker channel (SpecChannel)

\* a step in which caller c runs processImageInWorker up to its first await
Enters(c) == callpc[c] = "start" /\ callpc'[c] # "start"

\* C7: at most one Worker is constructed, and a processImageInWorker that
\* finds a worker object leaves what initWorker owns as it is: the attempt
\* counter, the fallback flag, isInitialized, the worker.
C7_InitIdempotent ==
  [][/\ workersConstructed' <= 1
     /\ \A c \in Callers :
          (Enters(c) /\ worker # "null") =>
             /\ initializationAttempts' = initializationAttempts
             /\ fallbackToMainThread' = fallbackToMainThread
             /\ isInitialized' = isInitialized
             /\ worker' = worker
             /\ workersConstructed' = workersConstructed]_vars

\* a worker exists after attempts of two calls, not initialized, and a caller
\* is about to call initWorker again
C7_Witness ==
  /\ worker # "null"
  /\ workersConstructed = 1
  /\ ~isInitialized
  /\ ~fallbackToMainThread
  /\ initializationAttempts = 2
  /\ \E c \in Callers : callpc[c] = "start"

C8_IdsFresh ==
  /\ \A k \in ReqIdx : reqs[k].id < messageId
  /\ \A j, k \in ReqIdx : j # k => reqs[j].id # reqs[k].id
  /\ \A i \in DOMAIN pendingPromises :
        pendingPromises[i] \in ReqIdx /\ reqs[pendingPromises[i]].id = i
  /\ \A m \in inbox : m.req \in ReqIdx /\ reqs[m.req].id = m.id
  /\ \A k \in ReqIdx : reqs[k].by \in {0, k}

C8_NewIds ==
  /\ messageId' >= messageId
  /\ \A k \in (DOMAIN reqs') \ ReqIdx :
        reqs'[k].id = messageId /\ messageId' = messageId + 1

C8_OwnIdOnly ==
  \A m \in inbox \ inbox' :
    IF m.id \in DOMAIN pendingPromises
    THEN /\ pendingPromises[m.id] = m.req
         /\ \A k \in (DOMAIN reqs') \ {m.req} : reqs'[k] = reqs[k]
         /\ \A i \in (DOMAIN pendingPromises) \ {m.id} :
               i \in DOMAIN pendingPromises' /\ pendingPromises'[i] = pendingPromises[i]
    ELSE /\ \A k \in DOMAIN reqs' : reqs'[k] = reqs[k]
         /\ UNCHANGED <<worker, isInitialized, messageId, pendingPromises,
                        fallbackToMainThread, initializationAttempts, callpc,
                        callreq, callres>>

\* C8: a new request takes the id messageId, which then grows by one and
\* never shrinks, so the ids of the requests are all different and below
\* messageId; a worker message settles the request registered under its id,
\* which is the request it answers, and touches no other request or entry;
\* a message whose id has no entry changes nothing.
C8_IdMatching ==
  [][C8_NewIds /\ C8_OwnIdOnly /\ C8_IdsFresh']_vars

\* three ids are in use; a predict request was resolved by its own answer
\* while the answer to a timed-out request, whose entry is gone, is still
\* to come
C8_Witness ==
  /\ messageId >= 3
  /\ \E k \in ReqIdx :
        reqs[k].type = "predict" /\ reqs[k].outcome = "resolved" /\ reqs[k].by = k
  /\ \E m \in inbox : m.id \notin DOMAIN pendingPromises

\* C9: the step in which a predict request times out removes its entry,
\* rejects it alone, and leaves every other pending request with its
\* promise, its timer and its entry.
C9_TimeoutIsolated ==
  [][\A k \in ReqIdx :
       (reqs[k].type = "predict" /\ Pending(k)
          /\ k \in DOMAIN reqs' /\ reqs'[k].outcome = "timedOut") =>
         /\ reqs[k].id \notin DOMAIN pendingPromises'
         /\ \A j \in ReqIdx \ {k} :
               Pending(j) => j \in DOMAIN reqs' /\ reqs'[j] = reqs[j]
         /\ \A i \in (DOMAIN pendingPromises) \ {reqs[k].id} :
               i \in DOMAIN pendingPromises' /\ pendingPromises'[i] = pendingPromises[i]]_vars

\* one predict request has timed out, and another, sent while the first was
\* pending, has been resolved by its own answer
C9_Witness ==
  \E j, k \in ReqIdx :
    /\ reqs[k].type = "predict" /\ reqs[k].outcome = "timedOut"
    /\ reqs[j].type = "predict" /\ reqs[j].outcome = "resolved" /\ reqs[j].by = j
    /\ reqs[j].id > reqs[k].id

\* C10: a request that was pending when worker.onerror ran stays rejected
\* with the worker's error, whatever arrives later.
C10_ErroredStayRejected ==
  \A k \in erroredPending : k \in ReqIdx /\ reqs[k].outcome = "workerError"

\* a predict request rejected by onerror, its caller gone on, its entry still
\* in pendingPromises and the worker's answer to it still to come
C10_Witness ==
  \E k \in erroredPending :
    /\ reqs[k].type = "predict"
    /\ reqs[k].outcome = "workerError"
    /\ reqs[k].id \in DOMAIN pendingPromises
    /\ \E m \in inbox : m.req = k
    /\ \A c \in Callers : callreq[c] # k

\* what initWorker() returns before anything else when called now:
\* if (isInitialized) return true
InitWorkerReturnsTrue == isInitialized

\* the attempts are used up and the fallback flag is set
ChannelUnavailable ==
  fallbackToMainThread /\ initializationAttempts >= MAX_INIT_ATTEMPTS

\* a call of processImageInWorker whose initWorker() finds the attempts used up
ExhaustedCall(c) ==
  /\ Enters(c)
  /\ ~isInitialized /\ ~fallbackToMainThread
  /\ initializationAttempts >= MAX_INIT_ATTEMPTS

\* the degraded path: processFallback's result, nothing posted
DegradedCall(c) ==
  /\ callres'[c] = "fallback"
  /\ messageId' = messageId
  /\ inbox' = inbox
  /\ pendingPromises' = pendingPromises

\* C11: initializationAttempts stays at or below MAX_INIT_ATTEMPTS; the call
\* that finds the attempts used up makes the channel unavailable; from then
\* on it stays unavailable, initWorker() reports false, and every
\* processImageInWorker takes the degraded path and posts nothing.
C11_ExhaustedForGood ==
  [][/\ initializationAttempts' <= MAX_INIT_ATTEMPTS
     /\ \A c \in Callers : ExhaustedCall(c) => ChannelUnavailable' /\ DegradedCall(c)
     /\ ChannelUnavailable => ChannelUnavailable' /\ ~InitWorkerReturnsTrue'
     /\ \A c \in Callers : (ChannelUnavailable /\ Enters(c)) => DegradedCall(c)]_vars

\* the attempts are used up, the fallback flag is set, and an initialization
\* that was pending at that time has succeeded since
C11_Witness ==
  /\ ChannelUnavailable
  /\ worker # "null"
  /\ isInitialized

----------------------------------------------------------------------------
\* Properties of the image-processing worker channel (SpecImageWorker)

\* C12: a preprocessImage / segmentImage promise that a worker message has
\* settled was settled by the response to its own request.
C12_OwnResponseOnly ==
  \A n \in DOMAIN ireqs :
    ireqs[n].stage \in {"resolved", "rejected"} => ireqs[n].by = n

\* two requests were in flight and the response to the first has resolved
\* the second
C12_Witness ==
  \E n \in DOMAIN ireqs :
    /\ ireqs[n].stage = "resolved"
    /\ ireqs[n].by \in (DOMAIN ireqs) \ {n}
    /\ ireqs[ireqs[n].by].type # ireqs[n].type

----------------------------------------------------------------------------
\* Properties of the capture component (SpecCamera)

\* C13: whenever the camera tab has been left or the component is unmounted,
\* no camera stream has a track that is not stopped.
C13_StreamReleased ==
  (activeTab # "camera" \/ ~mounted) => liveStreams = {}

\* the camera was started, and the user went to the upload tab while the
\* component still holds the stream
C13_Witness ==
  /\ mounted
  /\ activeTab = "upload"
  /\ isCameraActive
  /\ streamRef \in liveStreams

----------------------------------------------------------------------------
\* Properties of classifications and records (SpecDiagnose)

\* C14: the confidence of every classification, and the confidenceScore of
\* every record returned, is an integer from 0 to 100.
C14_ConfidenceInRange ==
  /\ dxInput.confidence \in 0..100
  /\ dxRecord.confidenceScore \in 0..100

\* the SVM classifier has called a plant healthy with more than 100 percent
C14_Witness ==
  /\ dxInput.producer = "SVMClassifier"
  /\ dxInput.confidence > 100
  /\ dxRecord.confidenceScore = dxInput.confidence

\* C15: in every record isHealthy is (diseaseId = "healthy"); a healthy
\* record has no diseaseName and no symptoms, any other has a diseaseName.
C15_HealthyBranches ==
  dxRecord # NoRecord =>
    /\ dxRecord.isHealthy = (dxRecord.diseaseId = "healthy")
    /\ dxRecord.isHealthy =>
         dxRecord.diseaseName = "undefined" /\ dxRecord.symptoms = << >>
    /\ ~dxRecord.isHealthy => dxRecord.diseaseName # "undefined"

\* a healthy record and a record of a disease have both been assembled
C15_Witness ==
  /\ dxRecord # NoRecord
  /\ dxRecord.isHealthy
  /\ dxRecord.symptoms = << >>
  /\ dxRecord.producer = "getLocalDiseaseData"

----------------------------------------------------------------------------
\* Properties of the Result Store Gateway (SpecStore)

LowConfidenceIds == {r.id : r \in {s \in StoreRecords : s.confidenceScore < MinSaveConfidence}}

\* C17: every row of the store has confidence_score >= 75, and no record of
\* lower confidence that was handed to saveDiagnosisToDatabase is stored or
\* returned by getDiagnosisHistory.
C17_OnlyConfidentRows ==
  /\ \A row \in diagnoses : row.confidence_score >= 75
  /\ \A id \in LowConfidenceIds : ~Stored(id)
  /\ lastOp.op = "history" => lastOp.result \cap LowConfidenceIds = {}

\* a record of confidence 60 has been handed to saveDiagnosisToDatabase with
\* the store connected, next to rows of other records
C17_Witness ==
  /\ lastOp.op = "save"
  /\ lastOp.id = "r60"
  /\ lastOp.probe = "ok"
  /\ diagnoses # {}

\* C18: a call made when the probe query fails returns without throwing and
\* without a store write; a history is then empty and a lookup by id null.
C18_UnreachableIsNoOp ==
  (lastOp.op # "none" /\ ProbeFailed(lastOp.probe)) =>
    /\ lastOp.outcome = "returned"
    /\ ~lastOp.wrote
    /\ lastOp.op \in {"history", "byId"} => lastOp.result = {}

\* the probe query failed with an error that is not an authentication error
\* and saveDiagnosisToDatabase went on to insert
C18_Witness ==
  /\ lastOp.op = "save"
  /\ lastOp.probe = "error"
  /\ lastOp.wrote

\* C19: a deletion issues the storage removal exactly when the stored
\* image_path is present and contains neither 'unsplash.com' nor 'blob:'.
C19_RemovalIffStoredImage ==
  [][\A id \in StoreIds :
       (lastOp' # lastOp /\ lastOp'.op = "delete" /\ lastOp'.id = id
          /\ checkSupabaseConnection(lastOp'.probe))
        => (lastOp'.removed <=>
              /\ Stored(id)
              /\ RowOf(id).image_path # << >>
              /\ ~Includes(RowOf(id).image_path, "unsplash.com")
              /\ ~Includes(RowOf(id).image_path, "blob:"))]_vars

\* a row whose image is in the bucket was deleted and no removal was issued
C19_Witness ==
  /\ lastOp.op = "delete"
  /\ lastOp.id = "r75"
  /\ lastOp.result = {"r75"}
  /\ lastOp.outcome = "returned"
  /\ ~lastOp.removed
  /\ ~Stored("r75")

----------------------------------------------------------------------------
\* Properties of the Image Validator (SpecValidate)

\* the reason of the first failing check in the order file type, file size,
\* minimum dimension, too dark, too bright
FirstFailingCheck(f) ==
  IF f.type \notin AcceptedTypes
  THEN "Invalid file type. Please upload a JPEG, PNG, WEBP, or BMP image."
  ELSE IF f.size > MaxFileBytes
  THEN "Image is too large. Maximum size is 25MB."
  ELSE IF f.minDim < MinDimension
  THEN "Image is too small. Please provide a larger image."
  ELSE IF f.brightness < DarkThreshold
  THEN "Image is too dark. Please provide a better lit image."
  ELSE IF f.brightness > BrightThreshold
  THEN "Image is too bright or mostly blank. Please provide an image with clearer plant content."
  ELSE ""

\* C20: for an image that decodes, the reason reported is that of the first
\* failing check in the order file type, file size, minimum dimension, too
\* dark, too bright.
C20_FirstFailingCheck ==
  vfile.loads => vreason = FirstFailingCheck(vfile)

\* a near-black image of accepted type, size and dimensions was accepted
C20_Witness ==
  /\ vfile.loads
  /\ ~vfile.readable
  /\ vfile.type \in AcceptedTypes
  /\ vfile.size <= MaxFileBytes
  /\ vfile.minDim >= MinDimension
  /\ vfile.brightness < DarkThreshold
  /\ vreason = ""

----------------------------------------------------------------------------
\* Properties of segmentImage (SpecSegment)

DefaultThreshold == segInput.threshold \in {0, 11}

AllPixels(P(_)) == \A i \in DOMAIN segInput.pixels : P(segInput.pixels[i])

GreenIsDouble(p) == p.g = 2 * p.r /\ p.g = 2 * p.b

Grey(p) == p.g = p.r /\ p.g = p.b

NotBlack(p) == p.r > 0

AllForeground == \A i \in DOMAIN segKept : segKept[i]

NoForeground == \A i \in DOMAIN segKept : ~segKept[i]

\* C21 as stated: with threshold 1.1, a buffer whose pixels all have
\* green = 2*red = 2*blue is all foreground, whatever the pixel value, and a
\* buffer whose pixels all have green = red = blue has no foreground.
C21_DoubleGreenAllForeground ==
  (segInput.pixels # << >> /\ DefaultThreshold) =>
    /\ AllPixels(GreenIsDouble) => AllForeground
    /\ AllPixels(Grey) => NoForeground

\* C21 amended: the same for pixels with green = 2*red = 2*blue that are not
\* black; a pixel is kept exactly when 10*green exceeds 11*red and 11*blue,
\* and a kept pixel is returned as it was.
C21_DoubleGreenNotBlack ==
  (segInput.pixels # << >> /\ DefaultThreshold) =>
    /\ (AllPixels(GreenIsDouble) /\ AllPixels(NotBlack)) => AllForeground
    /\ AllPixels(Grey) => NoForeground
    /\ \A i \in DOMAIN segKept :
         /\ segKept[i] <=> (10 * segInput.pixels[i].g > 11 * segInput.pixels[i].r
                             /\ 10 * segInput.pixels[i].g > 11 * segInput.pixels[i].b)
         /\ segKept[i] => segResult[i] = segInput.pixels[i]

\* a buffer of two different pixels with green twice red and blue was
\* segmented, and so was one of grey pixels
C21_Witness ==
  /\ Len(segInput.pixels) = 2
  /\ segInput.pixels[1] # segInput.pixels[2]
  /\ AllPixels(GreenIsDouble) /\ AllPixels(NotBlack)
  /\ DefaultThreshold
  /\ AllForeground

----------------------------------------------------------------------------
\* Timeouts and worker errors of the worker channel (SpecChannel)

\* What the code awaiting a request's promise receives.  workerInitPromise
\* is only ever resolved, with true or with false; the promise of
\* sendWorkerMessage is resolved with the result or rejected with an Error
\* that carries the reason.
Reported(r) ==
  IF r.type = "init"
  THEN IF r.outcome = "resolved" THEN "true" ELSE "false"
  ELSE r.outcome

\* the failures of a request that are not its timeout
ChannelFailures == {"initFalse", "responseError", "workerError"}

\* the step in which the timer of the pending request k fires
TimesOut(k) ==
  /\ Pending(k)
  /\ k \in DOMAIN reqs'
  /\ reqs'[k].outcome = "timedOut"

\* C22: when the timer of a pending request fires, init or predict, the
\* request's entry is removed from pendingPromises, and what the awaiting
\* code receives differs from what it receives on a worker or channel error.
C22_TimeoutRejectsAndRemoves ==
  [][\A k \in ReqIdx :
       TimesOut(k) =>
         /\ reqs[k].id \notin DOMAIN pendingPromises'
         /\ \A o \in ChannelFailures :
               Reported(reqs'[k]) # Reported([reqs[k] EXCEPT !.outcome = o])]_vars

\* the init request has timed out, its entry is still in pendingPromises and
\* the worker's answer to it is still to come
C22_Witness ==
  \E k \in ReqIdx :
    /\ reqs[k].type = "init"
    /\ reqs[k].outcome = "timedOut"
    /\ reqs[k].id \in DOMAIN pendingPromises
    /\ \E m \in inbox : m.req = k

\* the step in which worker.onerror rejects the pending request k
ErrorRejects(k) ==
  /\ Pending(k)
  /\ k \in DOMAIN reqs'
  /\ reqs'[k].outcome = "workerError"

\* C23: the step in which worker.onerror rejects the pending requests leaves
\* the channel out of the ready state: isInitialized is false and
\* pendingPromises is empty, so that the next processImageInWorker has to
\* initialize before it posts.
C23_ErrorLeavesReady ==
  [][(\E k \in ReqIdx : ErrorRejects(k)) =>
        ~isInitialized' /\ DOMAIN pendingPromises' = {}]_vars

\* the worker reported an error while a predict request was pending; the
\* channel still counts as initialized, the rejected request's entry is still
\* registered, and a later predict request has been posted to the same worker
C23_Witness ==
  \E j, k \in ReqIdx :
    /\ reqs[k].type = "predict" /\ reqs[k].outcome = "workerError"
    /\ reqs[k].id \in DOMAIN pendingPromises
    /\ reqs[j].type = "predict" /\ Pending(j) /\ reqs[j].id > reqs[k].id
    /\ \E m \in inbox : m.req = j
    /\ isInitialized
    /\ workersConstructed = 1

\* an initialization was attempted, none is under way, and the channel is
\* not initialized: the attempts made so far have failed
InitFailed ==
  /\ initializationAttempts >= 1
  /\ ~isInitialized
  /\ \A k \in ReqIdx : reqs[k].type = "init" => ~Pending(k)

\* an 'init' request is registered and posted in this step
PostsInit ==
  \E k \in (DOMAIN reqs') \ ReqIdx : reqs'[k].type = "init"

\* the step in which caller c's processImageInWorker calls initWorker() while
\* attempts remain
Reattempts(c) ==
  /\ Enters(c)
  /\ ~fallbackToMainThread
  /\ workerSupported
  /\ initializationAttempts < MAX_INIT_ATTEMPTS

\* C26: while attempts remain, the initWorker() of a call made after a
\* failed initialization posts a new 'init' request, unless constructing the
\* worker throws and leaves no worker.
C26_RetryPostsInit ==
  [][\A c \in Callers :
       (InitFailed /\ Reattempts(c)) => (PostsInit \/ worker' = "null")]_vars

\* the first initialization has timed out, the worker object is still held,
\* two attempts remain and a caller is about to call initWorker() again
C26_Witness ==
  /\ InitFailed
  /\ worker # "null"
  /\ ~fallbackToMainThread
  /\ initializationAttempts = 1
  /\ \E k \in ReqIdx : reqs[k].type = "init" /\ reqs[k].outcome = "timedOut"
  /\ \E c \in Callers : callpc[c] = "start"

----------------------------------------------------------------------------
\* Settlement of the image-worker requests (SpecImageWorkerFair)

\* call n of preprocessImage / segmentImage is waiting: for getWorker's
\* 'ready', or for the worker's response with its handler installed
ImgWaiting(n) ==
  /\ n \in DOMAIN ireqs
  /\ ireqs[n].stage \in {"awaitWorker", "posted"}

\* call n is over and has no listener left on the worker
ImgSettled(n) ==
  /\ n \in DOMAIN ireqs
  /\ ireqs[n].stage \in {"resolved", "rejected", "fallback"}
  /\ n \notin ilisteners

\* C24: every preprocessImage / segmentImage call that waits for the worker
\* is eventually settled with its listener removed, whether or not the
\* worker answers.
C24_EventuallySettled ==
  \A n \in 1..MaxImgRequests : ImgWaiting(n) ~> ImgSettled(n)

\* a request is posted, its handler is installed, and the worker has
\* neither answered it nor posted anything else
C24_Witness ==
  \E n \in DOMAIN ireqs :
    /\ ireqs[n].stage = "posted"
    /\ n \in ilisteners
    /\ n \in iinbox
    /\ ioutbox = << >>

----------------------------------------------------------------------------
\* Release of object URLs and tensors (SpecResources)

\* the running call is over
ResOver == resPc \in {"returned", "threw"}

\* what the call just made has left allocated
LeftBy(n) == {r \in resLive : r.n = n}

\* C25: when a call returns or throws, every object URL and tensor it
\* allocated has been released.
C25_AllReleased ==
  ResOver => LeftBy(resAttempt) = {}

\* processImageData has thrown after its tensors were created, and they are
\* still allocated
C25_Witness ==
  /\ resFn = "processImageData"
  /\ resPc = "threw"
  /\ {r.res : r \in LeftBy(resAttempt)} = {"tensor", "resized", "scalars", "normalized"}

----------------------------------------------------------------------------
\* Camera streams of the capture component (SpecCamera)

\* the streams stopCamera() can still reach
Held == {streamRef} \ {0}

\* C27: at most one camera stream is live, and every live stream is the one
\* streamRef holds, which is the only stream stopCamera() stops.
C27_OneStreamHeld ==
  /\ Cardinality(liveStreams) <= 1
  /\ liveStreams \subseteq Held

\* two startCamera calls overlapped on the camera tab: both getUserMedia
\* calls have resolved, both streams are live, and streamRef holds one
C27_Witness ==
  /\ mounted
  /\ activeTab = "camera"
  /\ started = 2
  /\ gumCalls = {}
  /\ restartTimers = 0
  /\ Cardinality(liveStreams) = 2
  /\ streamRef \in liveStreams

----------------------------------------------------------------------------
\* Upload and validation in analyzePlantImage (SpecAnalyze)

\* the image of this analysis is in the 'plant-images' bucket: uploadImage
\* returned its public URL
InBucket == imageUrl = "public"

\* C28: an image is in the bucket only if validateImage and
\* checkImageContent accept it.
C28_UploadOnlyValidated ==
  InBucket => validateImage(file) = "" /\ checkImageContent(file) = ""

\* the analysis has rejected the image in processImageForModel, after
\* uploadImage had stored it
C28_Witness ==
  /\ InBucket
  /\ processImageForModel(file) # ""
  /\ apc = "catchModel"

----------------------------------------------------------------------------
\* The bucket and the details table of the Result Store Gateway (SpecStore)

\* the record r is deleted in this step: its row is there before and gone
\* after
Deletes(r) == Stored(r.id) /\ ~(\E row \in diagnoses' : row.id = r.id)

\* C29: the key deleteDiagnosisFromHistory removes is the key uploadImage
\* stored the record's image under: a step that deletes a record whose image
\* is in the bucket leaves the bucket without that object.
C29_DeleteRemovesBlob ==
  [][\A r \in StoreRecords :
       (Deletes(r) /\ Uploaded(r.imageUrl) /\ KeyIn(r.imageUrl) \in bucket) =>
          /\ RemovedKey(r.imageUrl) = KeyIn(r.imageUrl)
          /\ KeyIn(r.imageUrl) \notin bucket']_vars

\* a record with an uploaded image has been deleted, the storage removal was
\* issued, and the object is still in the bucket
C29_Witness ==
  /\ lastOp.op = "delete" /\ lastOp.outcome = "returned" /\ lastOp.removed
  /\ lastOp.result # {}
  /\ ~Stored(lastOp.id)
  /\ \E r \in StoreRecords :
        r.id = lastOp.id /\ Uploaded(r.imageUrl) /\ KeyIn(r.imageUrl) \in bucket

\* C30: every row of diagnoses has its row in diagnosis_details.
C30_RowsHaveDetails ==
  \A row \in diagnoses : row.id \in details

\* the first insert of saveDiagnosisToDatabase went through, the second
\* failed and the call threw: the diagnoses row is there without details
C30_Witness ==
  /\ lastOp.op = "save" /\ lastOp.outcome = "threw"
  /\ Stored(lastOp.id)
  /\ lastOp.id \notin details

====
